---- MODULE Spec2Model ----
(***************************************************************************)
(* AutoInvoice: the document assembly pipeline of server/routes.ts over    *)
(* the store of server/storage.ts and the tables of shared/schema.ts.      *)
(*                                                                         *)
(* The store is three tables (companies, documents, whatsappMessages).     *)
(* Every await on the store is one atomic step of a request; the code      *)
(* between two awaits runs with the step that precedes it (Node runs a     *)
(* continuation to its next await without interleaving).  A store call     *)
(* that writes may reject; the handler's try/catch then answers 500.       *)
(*                                                                         *)
(* Message bodies are kept as lexed lines: the regular expressions of      *)
(* whatsapp-parser.ts decide which kind a line has, the model starts from  *)
(* that kind and computes everything the parser computes from it.          *)
(*                                                                         *)
(* Specifications: Spec (a creation request and a delivery, interleaved),  *)
(* SeqSpec (the same, one after the other), LazySpec (first requests of a  *)
(* new user, interleaved), FullSpec (one request of any kind and one       *)
(* delivery, one after the other), ParserSpec (the parser on its own),     *)
(* PhoneSpec (the phone lookup of the later storage.ts), BillingSpec       *)
(* (billing events, checkout and profile updates before a creation         *)
(* request), IsolationSpec (reads, updates and PDFs of one user while a    *)
(* second company owns a document).                                        *)
(***************************************************************************)
EXTENDS Integers, Sequences, FiniteSets, TLC

VARIABLES companies, documents, whatsappMessages, now, web, hook,
          access, edit, pdf, call

vars == << companies, documents, whatsappMessages, now, web, hook,
           access, edit, pdf, call >>

\* The requests other than the creation requests, and the call of the
\* parser on its own.
others == <<access, edit, pdf, call>>

(***************************************************************************)
(* Bounds of the model.                                                    *)
(***************************************************************************)
\* Date.now() advances at most this many milliseconds during a run.
MaxClock == 1

\* Web clients (one POST /api/documents each) and webhook deliveries (one
\* POST /api/webhook/whatsapp each): the two run concurrently, and the
\* messages of a delivery's batch one after another.
Clients == {"a"}
Deliveries == {"d"}

\* req.user.claims.sub of a client's session.
UserOf(cl) == "u1"

\* "No value": undefined / null of the source.
Undefined == "undefined"

(***************************************************************************)
(* shared/schema.ts                                                        *)
(***************************************************************************)
subscriptionPlans == {"starter", "pro", "business"}

documentTypes == {"invoice", "quotation", "receipt"}

documentStatuses == {"draft", "sent", "paid"}

\* The limit of a plan: <<n>> is a finite ceiling, <<>> is Infinity.
Infinity == <<>>

\* planLimits[plan] of a plan that is not a key of planLimits: undefined,
\* kept as the ceiling -1 that no plan has.
UndefinedLimit == <<-1>>

planLimits(plan) ==
    CASE plan = "starter" -> <<10>>
      [] plan = "pro" -> <<50>>
      [] plan = "business" -> Infinity
      [] OTHER -> UndefinedLimit

\* planLimits[plan] as the handlers read it.
LimitOf(company) == planLimits(company.subscriptionPlan)

(***************************************************************************)
(* Money (whatsapp-parser.ts line 65): Math.round(n / d) for n >= 0, d > 0 *)
(* is round-half-up.                                                       *)
(***************************************************************************)
MathRound(n, d) == (2 * n + d) \div (2 * d)

\* lineItems.reduce((sum, item) => sum + item.total, 0)
RECURSIVE SumTotals(_)
SumTotals(items) ==
    IF items = <<>> THEN 0
    ELSE items[1].total + SumTotals(Tail(items))

MinLen(a, b) == IF a <= b THEN a ELSE b

\* x || 0 for an optional number: <<>> is undefined, <<n>> is n.
OrZero(opt) == IF opt = <<>> THEN 0 ELSE opt[1]

\* x || undefined for a number: 0 becomes undefined.
OrUndefined(n) == IF n = 0 THEN <<>> ELSE <<n>>

(***************************************************************************)
(* routes.ts: checkPlanLimit and the webhook's own limit test.             *)
(***************************************************************************)
\* checkPlanLimit with the comparison off by one (<= for <).
checkPlanLimitOffByOne(company) ==
    LET limit == LimitOf(company)
    IN  IF limit = Infinity THEN TRUE
        ELSE IF limit = UndefinedLimit THEN FALSE
        ELSE company.documentsUsedThisMonth <= limit[1]

\* A comparison of a number with undefined is false.
checkPlanLimit(company) ==
    LET limit == LimitOf(company)
    IN  IF limit = Infinity THEN TRUE
        ELSE IF limit = UndefinedLimit THEN FALSE
        ELSE company.documentsUsedThisMonth < limit[1]

\* limit !== Infinity && company.documentsUsedThisMonth >= limit
hookLimitReached(company) ==
    LET limit == LimitOf(company)
    IN  /\ limit # Infinity
        /\ IF limit = UndefinedLimit THEN FALSE
           ELSE company.documentsUsedThisMonth >= limit[1]

(***************************************************************************)
(* routes.ts: createSchema of POST /api/documents.  Numbers of a body are  *)
(* integers in the model, so z.number() holds of each of them; what the    *)
(* schema can refuse is the kind, the customer name and the status.        *)
(***************************************************************************)
createSchemaOk(body) ==
    /\ body.documentType \in documentTypes
    /\ body.customerName # Undefined
    /\ body.customerName # ""
    /\ body.status \in documentStatuses \cup {Undefined}

\* The row POST /api/documents hands to storage.createDocument.
webDocumentRow(company, documentNumber, body) ==
    [ companyId |-> company.id,
      documentNumber |-> documentNumber,
      documentType |-> body.documentType,
      customerName |-> body.customerName,
      lineItems |-> body.lineItems,
      subtotal |-> body.subtotal,
      taxRate |-> OrZero(body.taxRate),
      taxAmount |-> OrZero(body.taxAmount),
      total |-> body.total,
      status |-> IF body.status = Undefined THEN "draft" ELSE body.status ]

(***************************************************************************)
(* storage.ts: generateDocumentNumber.  The string                         *)
(* `${prefix}-${year}-${count padded to 4}-${timestamp}` is kept as the    *)
(* tuple of its four parts: no part holds a '-', so two strings are equal  *)
(* exactly when the tuples are.  The padded count is kept as the sequence  *)
(* of its characters, each a decimal digit.                                *)
(***************************************************************************)
Prefix(type) ==
    IF type = "invoice" THEN "INV"
    ELSE IF type = "quotation" THEN "QUO" ELSE "REC"

\* new Date().getFullYear() of a clock value in milliseconds.
getFullYear(t) == 1970 + ((t \div 1000) \div 31556952)

\* Date.now().toString(36).slice(-4): the last four base-36 digits.
Base36Last4(t) == t % 1679616

\* String(count): the decimal digits of a count >= 0, most significant first.
RECURSIVE String(_)
String(n) ==
    IF n < 10 THEN <<n>> ELSE Append(String(n \div 10), n % 10)

\* s.padStart(4, "0"): zeros in front up to four characters, s itself when
\* it is longer.
padStart(s) ==
    IF Len(s) >= 4 THEN s
    ELSE [i \in 1..4 |-> IF i <= 4 - Len(s) THEN 0 ELSE s[i - (4 - Len(s))]]

\* CountDocuments with the kind left out of the where clause.
CountDocumentsOfCompany(docs, companyId, type) ==
    Cardinality({i \in 1..Len(docs) : docs[i].companyId = companyId})

CountDocuments(docs, companyId, type) ==
    Cardinality({i \in 1..Len(docs) :
        docs[i].companyId = companyId /\ docs[i].documentType = type})

generateDocumentNumber(docs, t, companyId, type) ==
    LET count == CountDocuments(docs, companyId, type) + 1
    IN  << Prefix(type), getFullYear(t), padStart(String(count)),
           Base36Last4(t) >>

(***************************************************************************)
(* storage.ts: the store's operations on the tables.                       *)
(***************************************************************************)
getCompanyByUserId(userId) ==
    {c \in DOMAIN companies : companies[c].userId = userId}

getCompanyByWhatsappNumber(whatsappNumberId) ==
    {c \in DOMAIN companies : companies[c].whatsappNumberId = whatsappNumberId}

\* insert ... returning: the row gets the next id and the defaults of the
\* columns it does not name (pdfUrl null, sentViaWhatsapp false).
createDocument(docs, row) ==
    Append(docs, [ id |-> Len(docs) + 1, pdfUrl |-> Undefined,
                   sentViaWhatsapp |-> FALSE ] @@ row)

\* set documentsUsedThisMonth = documentsUsedThisMonth + 1 where id = companyId
incrementDocumentsUsed(cs, companyId) ==
    [c \in DOMAIN cs |->
        IF cs[c].id = companyId
        THEN [cs[c] EXCEPT !.documentsUsedThisMonth = @ + 1]
        ELSE cs[c]]

createWhatsappMessage(msgs, companyId, fromNumber, messageBody) ==
    Append(msgs, [ id |-> Len(msgs) + 1,
                   companyId |-> companyId,
                   fromNumber |-> fromNumber,
                   messageBody |-> messageBody,
                   parsed |-> FALSE,
                   documentId |-> 0 ])

\* An update that sets parsed and leaves document_id as it was.
updateWhatsappMessageParsedOnly(msgs, id, documentId) ==
    [i \in DOMAIN msgs |->
        IF msgs[i].id = id THEN [msgs[i] EXCEPT !.parsed = TRUE] ELSE msgs[i]]

\* update whatsapp_messages set parsed = true, document_id = ... where id = ...
updateWhatsappMessage(msgs, id, documentId) ==
    [i \in DOMAIN msgs |->
        IF msgs[i].id = id
        THEN [msgs[i] EXCEPT !.parsed = TRUE, !.documentId = documentId]
        ELSE msgs[i]]

(***************************************************************************)
(* whatsapp-parser.ts.  A message is [keywords, lines]: keywords are the   *)
(* kind words its lowercased text includes, lines its trimmed non-empty    *)
(* lines.  A line is [kind, text, qty, cents, pct]:                        *)
(*   kind "customer" | "phone" | "tax" | "note": the line starts with that *)
(*        label; text is what follows the first colon, trimmed; pct is the *)
(*        decimal the tax pattern finds as <<whole, thousandths>> (<<>>    *)
(*        when it finds none);                                             *)
(*   kind "item1".."item4": the first pattern of parseLineItem that        *)
(*        matches; qty is parseInt of its quantity group, cents is         *)
(*        Math.round(parseFloat(price) * 100);                             *)
(*   kind "text": no label and no pattern matches.                         *)
(***************************************************************************)
NoItem == [ok |-> FALSE]

parseLineItem(line) ==
    IF line.kind \in {"item1", "item2", "item3"}
    THEN [ ok |-> TRUE,
           item |-> [ description |-> line.text,
                      quantity |-> line.qty,
                      unitPrice |-> line.cents,
                      total |-> line.qty * line.cents ] ]
    ELSE IF line.kind = "item4"
    THEN [ ok |-> TRUE,
           item |-> [ description |-> line.text,
                      quantity |-> 1,
                      unitPrice |-> line.cents,
                      total |-> line.cents ] ]
    ELSE NoItem

\* Line 46: parseFloat(taxMatch[1]) * 100 for the decimal <<whole, thousandths>>
\* the tax pattern found, as <<whole part, tenths>>: the product is not
\* rounded.
TimesHundred(pct) == << pct[1] * 100 + pct[2] \div 10, pct[2] % 10 >>

\* parseLine with the bare-line fallback taken on any line, not only on one
\* equal to the first line.
parseLineAnywhere(acc, line, first) ==
    IF line.kind = "customer" THEN [acc EXCEPT !.customerName = line.text]
    ELSE IF line.kind = "phone" THEN [acc EXCEPT !.customerPhone = line.text]
    ELSE IF line.kind = "tax"
    THEN IF line.pct # <<>>
         THEN [acc EXCEPT !.taxRate = TimesHundred(line.pct)[1],
                          !.taxRateTenths = TimesHundred(line.pct)[2]]
         ELSE acc
    ELSE IF line.kind = "note" THEN [acc EXCEPT !.notes = line.text]
    ELSE LET parsed == parseLineItem(line)
         IN  IF parsed.ok
             THEN [acc EXCEPT !.lineItems = Append(@, parsed.item)]
             ELSE IF acc.customerName = ""
             THEN [acc EXCEPT !.customerName = line.text]
             ELSE acc

\* One turn of the for loop over the lines (lines 36-58); acc holds the
\* loop's variables.  The number taxRate is kept as acc.taxRate, its whole
\* part, and acc.taxRateTenths, the tenths that follow it.
parseLine(acc, line, first) ==
    IF line.kind = "customer" THEN [acc EXCEPT !.customerName = line.text]
    ELSE IF line.kind = "phone" THEN [acc EXCEPT !.customerPhone = line.text]
    ELSE IF line.kind = "tax"
    THEN IF line.pct # <<>>
         THEN [acc EXCEPT !.taxRate = TimesHundred(line.pct)[1],
                          !.taxRateTenths = TimesHundred(line.pct)[2]]
         ELSE acc
    ELSE IF line.kind = "note" THEN [acc EXCEPT !.notes = line.text]
    ELSE LET parsed == parseLineItem(line)
         IN  IF parsed.ok
             THEN [acc EXCEPT !.lineItems = Append(@, parsed.item)]
             ELSE IF acc.customerName = "" /\ line = first
             THEN [acc EXCEPT !.customerName = line.text]
             ELSE acc

RECURSIVE parseLines(_, _, _)
parseLines(acc, lines, first) ==
    IF lines = <<>> THEN acc
    ELSE parseLines(parseLine(acc, lines[1], first), Tail(lines), first)

\* classify with receipt tested before the quotation words.
classifyReceiptFirst(keywords) ==
    IF "receipt" \in keywords THEN "receipt"
    ELSE IF "quotation" \in keywords \/ "quote" \in keywords THEN "quotation"
    ELSE "invoice"

\* Lines 22-28: quotation words win over receipt, invoice otherwise.
classify(keywords) ==
    IF "quotation" \in keywords \/ "quote" \in keywords THEN "quotation"
    ELSE IF "receipt" \in keywords THEN "receipt"
    ELSE "invoice"

NoDraft == [ok |-> FALSE]

parseWhatsAppMessage(message) ==
    IF Len(message.lines) < 2 THEN NoDraft
    ELSE
      LET acc == parseLines([ customerName |-> "", customerPhone |-> "",
                              lineItems |-> <<>>, notes |-> "", taxRate |-> 0,
                              taxRateTenths |-> 0 ],
                            message.lines, message.lines[1])
          subtotal == SumTotals(acc.lineItems)
          taxRateTenths == 10 * acc.taxRate + acc.taxRateTenths
          taxAmount == IF taxRateTenths > 0
                       THEN MathRound(subtotal * taxRateTenths, 100000)
                       ELSE 0
      IN  IF acc.customerName = "" \/ acc.lineItems = <<>> THEN NoDraft
          ELSE [ ok |-> TRUE,
                 documentType |-> classify(message.keywords),
                 customerName |-> acc.customerName,
                 lineItems |-> acc.lineItems,
                 subtotal |-> subtotal,
                 taxRate |-> IF taxRateTenths = 0 THEN <<>>
                             ELSE <<acc.taxRate>>,
                 taxRateTenths |-> acc.taxRateTenths,
                 taxAmount |-> OrUndefined(taxAmount),
                 total |-> subtotal + taxAmount ]

\* The row the webhook hands to storage.createDocument (lines 453-466); an
\* undefined taxRate or taxAmount takes the column's default 0.
hookDocumentRow(company, documentNumber, parsed) ==
    [ companyId |-> company.id,
      documentNumber |-> documentNumber,
      documentType |-> parsed.documentType,
      customerName |-> parsed.customerName,
      lineItems |-> parsed.lineItems,
      subtotal |-> parsed.subtotal,
      taxRate |-> OrZero(parsed.taxRate),
      taxAmount |-> OrZero(parsed.taxAmount),
      total |-> parsed.total,
      status |-> "sent" ]

(***************************************************************************)
(* Inputs.                                                                 *)
(***************************************************************************)
Item(q, p, t) ==
    [description |-> "Product A", quantity |-> q, unitPrice |-> p, total |-> t]

Body(type, name, items, subtotal, taxRate, taxAmount, total) ==
    [ documentType |-> type, customerName |-> name, lineItems |-> items,
      subtotal |-> subtotal, taxRate |-> taxRate, taxAmount |-> taxAmount,
      total |-> total, status |-> Undefined ]

\* Request bodies of POST /api/documents: a well-formed invoice and
\* quotation, an empty and a missing customer name, no line items, a line
\* item with quantity 0 and a negative price, and amounts that do not add up.
GoodBody == Body("invoice", "Ali", <<Item(2, 100, 200)>>, 200, <<600>>, <<12>>, 212)

WebBodies ==
    { GoodBody,
      Body("quotation", "Ali", <<Item(1, 250, 250)>>, 250, <<>>, <<>>, 250),
      Body("invoice", "", <<Item(2, 100, 200)>>, 200, <<600>>, <<12>>, 212),
      Body("invoice", Undefined, <<Item(2, 100, 200)>>, 200, <<600>>, <<12>>, 212),
      Body("invoice", "Ali", <<>>, 0, <<>>, <<>>, 0),
      Body("invoice", "Ali", <<Item(0, -5, 0)>>, 0, <<>>, <<>>, 0),
      Body("invoice", "Ali", <<Item(2, 100, 999)>>, 200, <<600>>, <<7>>, 300) }

Line(kind, text, qty, cents, pct) ==
    [kind |-> kind, text |-> text, qty |-> qty, cents |-> cents, pct |-> pct]

\* "Customer: John Smith / Product A - 2 x RM 50 / Tax: 6%"
GoodText ==
    [ keywords |-> {},
      lines |-> << Line("customer", "John Smith", 0, 0, <<>>),
                   Line("item1", "Product A", 2, 5000, <<>>),
                   Line("tax", "6%", 0, 0, <<6, 0>>) >> ]

\* "hello / how are you": a name by the first-line fallback, no item.
BadText ==
    [ keywords |-> {},
      lines |-> << Line("text", "hello", 0, 0, <<>>),
                   Line("text", "how are you", 0, 0, <<>>) >> ]

\* The message bodies a delivery can carry: one the parser accepts, one it
\* refuses.
Texts == {GoodText, BadText}

\* value.metadata.phone_number_id of a delivery: of a company, or of none.
PhoneNumberIds == {"wa1", "wa9"}

\* message.id of the provider: a redelivered event carries the id it had.
MessageIds == {"wamid.1"}

\* The text messages a delivery can carry.
InboundMessages ==
    [ id : MessageIds, phoneNumberId : PhoneNumberIds, from : {"60123456789"},
      text : Texts ]

(***************************************************************************)
(* The state the run starts from: two companies, each with as many         *)
(* documents as its usage counter says, made by earlier requests.          *)
(***************************************************************************)
\* The usage a company of a plan starts with: around its limit.
StartUsed(plan) ==
    IF planLimits(plan) = Infinity THEN {50}
    ELSE {planLimits(plan)[1] - 1, planLimits(plan)[1]}

Company(id, userId, plan, used, whatsappNumberId) ==
    [ id |-> id, userId |-> userId, name |-> "My Company",
      subscriptionPlan |-> plan, documentsUsedThisMonth |-> used,
      whatsappNumberId |-> whatsappNumberId, logoUrl |-> Undefined,
      phone |-> <<>>, stripeCustomerId |-> Undefined,
      stripeSubscriptionId |-> Undefined ]

\* The i-th earlier invoice of a company, made for a customer of its own.
PriorCustomer == "Zed"

PriorDocument(id, companyId, i) ==
    [id |-> id, pdfUrl |-> Undefined, sentViaWhatsapp |-> FALSE] @@
    webDocumentRow([id |-> companyId], <<"INV", 1970, padStart(String(i)), 0>>,
                   [GoodBody EXCEPT !.customerName = PriorCustomer])

PriorDocuments(n) == [i \in 1..n |-> PriorDocument(i, 1, i)]

NoCompany == [id |-> 0]

\* steps: the pipeline steps the request has run, in the order it ran them;
\* fields: the keys of the JSON body of its response.
IdleWeb ==
    [ pc |-> "idle", body |-> GoodBody, company |-> NoCompany,
      documentNumber |-> <<>>, document |-> 0, status |-> 0,
      steps |-> <<>>, fields |-> {} ]

IdleHook ==
    [ pc |-> "loop", message |-> <<>>, company |-> NoCompany, logId |-> 0,
      parsed |-> NoDraft, documentNumber |-> <<>>, document |-> 0,
      status |-> 0, steps |-> <<>>, outcomes |-> <<>> ]

\* The sessions of a user who has no company yet.
Sessions == {"s1", "s2"}

SessionUser(s) == "u3"

\* A first authenticated request: seed is shouldSeed (the dashboard's), n
\* the demo document seedDemoData inserts next.
IdleAccess ==
    [ pc |-> "idle", seed |-> FALSE, company |-> NoCompany,
      existingCompany |-> NoCompany, n |-> 0, status |-> 0 ]

\* PATCH /api/documents/:id: id is req.params.id, body req.body.
IdleEdit ==
    [ pc |-> "idle", id |-> 0, body |-> <<>>, company |-> NoCompany,
      status |-> 0 ]

\* GET /api/documents/:id/pdf: timer is the abort timer of the logo fetch
\* (armed or not), stalled whether the response body never finishes
\* arriving, logo what became of the logo.
IdlePdf ==
    [ pc |-> "idle", id |-> 0, company |-> NoCompany, timer |-> FALSE,
      stalled |-> FALSE, logo |-> "none", status |-> 0 ]

\* No call of the parser on its own.
NoCall ==
    [ pc |-> "none", message |-> [keywords |-> {}, lines |-> <<>>],
      result |-> NoDraft ]

\* The tables and the requests at the start; logoUrl is the logo of the
\* first company.
InitStore(logoUrl) ==
    /\ \E plan \in subscriptionPlans : \E used \in StartUsed(plan) :
         /\ companies =
              << [Company(1, "u1", plan, used, "wa1") EXCEPT !.logoUrl = logoUrl],
                 Company(2, "u2", "starter", 0, Undefined) >>
         /\ documents = PriorDocuments(used)
    /\ whatsappMessages = <<>>
    /\ now = 0
    /\ web = [cl \in Clients |-> IdleWeb]
    /\ hook = [d \in Deliveries |-> IdleHook]
    /\ access = [s \in Sessions |-> IdleAccess]
    /\ edit = [cl \in Clients |-> IdleEdit]
    /\ pdf = [cl \in Clients |-> IdlePdf]

Init ==
    /\ InitStore(Undefined)
    /\ call = NoCall

\* What Date.now() can return at a read: the clock never runs backwards, and
\* now is its value at the latest read.
Clock == now..MaxClock

(***************************************************************************)
(* POST /api/documents (routes.ts lines 152-216).                          *)
(***************************************************************************)
\* catch (error): a rejected store call ends the request with 500.
WebThrow(cl) ==
    web' = [web EXCEPT ![cl].pc = "done", ![cl].status = 500,
                       ![cl].fields = {"message"}]

\* Lines 154-183: getOrCreateCompany, then checkPlanLimit and
\* createSchema.parse without a further await.
WebGetCompany(cl) ==
    /\ web[cl].pc = "idle"
    /\ \E userId \in {UserOf(cl)}, body \in WebBodies :
         \/ \E c \in getCompanyByUserId(userId) :
              LET company == companies[c]
              IN  web' = [web EXCEPT
                     ![cl].body = body,
                     ![cl].company = company,
                     ![cl].pc = IF checkPlanLimit(company) /\ createSchemaOk(body)
                                THEN "number" ELSE "done",
                     ![cl].status = IF ~checkPlanLimit(company) THEN 403
                                    ELSE IF ~createSchemaOk(body) THEN 400
                                    ELSE 0,
                     ![cl].fields = IF ~checkPlanLimit(company) THEN {"message"}
                                    ELSE IF ~createSchemaOk(body)
                                    THEN {"message", "errors"}
                                    ELSE {},
                     ![cl].steps = IF ~checkPlanLimit(company)
                                   THEN <<"resolve", "gate">>
                                   ELSE <<"resolve", "gate", "validate">> ]
    /\ UNCHANGED <<others, companies, documents, whatsappMessages, now, hook>>

\* Lines 184-187: storage.generateDocumentNumber.
WebGenerateNumber(cl) ==
    /\ web[cl].pc = "number"
    /\ \E t \in Clock :
            /\ now' = t
            /\ web' = [web EXCEPT
                 ![cl].documentNumber =
                     generateDocumentNumber(documents, t, web[cl].company.id,
                                            web[cl].body.documentType),
                 ![cl].steps = Append(@, "number"),
                 ![cl].pc = "insert" ]
    /\ UNCHANGED <<others, companies, documents, whatsappMessages, hook>>

\* Lines 189-203: storage.createDocument.
WebCreateDocument(cl) ==
    /\ web[cl].pc = "insert"
    /\ \/ /\ documents' = createDocument(documents,
                 webDocumentRow(web[cl].company, web[cl].documentNumber, web[cl].body))
          /\ web' = [web EXCEPT ![cl].document = Len(documents) + 1,
                                ![cl].steps = Append(@, "insert"),
                                ![cl].pc = "increment"]
       \/ WebThrow(cl) /\ UNCHANGED documents
    /\ UNCHANGED <<others, companies, whatsappMessages, now, hook>>

\* Lines 205-208: storage.incrementDocumentsUsed, then 201 with the document.
WebIncrement(cl) ==
    /\ web[cl].pc = "increment"
    /\ \/ /\ companies' = incrementDocumentsUsed(companies, web[cl].company.id)
          /\ web' = [web EXCEPT
                 ![cl].pc = "done", ![cl].status = 201,
                 ![cl].steps = Append(@, "increment"),
                 ![cl].fields = DOMAIN documents[web[cl].document]]
       \/ WebThrow(cl) /\ UNCHANGED companies
    /\ UNCHANGED <<others, documents, whatsappMessages, now, hook>>

(***************************************************************************)
(* POST /api/webhook/whatsapp (routes.ts lines 403-498).  outcomes is the  *)
(* run of the loop over the text messages so far: how each message's turn  *)
(* ended, at which step, after which pipeline steps, and the turn's locals *)
(* then (the message's id and text, company, parsed, whatsappMessage.id,   *)
(* documentNumber, document.id; 0 and <<>>: none).                         *)
(***************************************************************************)
Outcome(h, outcome) ==
    Append(h.outcomes,
           [ outcome |-> outcome, at |-> h.pc, message |-> h.message.id,
             text |-> h.message.text, company |-> h.company,
             logId |-> h.logId, parsed |-> h.parsed.ok,
             documentNumber |-> h.documentNumber, document |-> h.document,
             steps |-> h.steps ])

\* continue, or the end of a turn: the turn's locals go out of scope.
NextTurn(h, outcome) ==
    [IdleHook EXCEPT !.outcomes = Outcome(h, outcome)]

\* catch (error): a rejected store call ends the delivery with 500.
HookThrow(d) ==
    hook' = [hook EXCEPT ![d] =
        [NextTurn(hook[d], "Error") EXCEPT !.pc = "done", !.status = 500]]

\* The batch a delivery carries holds at most this many text messages.
MaxBatch == 2

\* HookGetCompany that keeps the company record it read for an earlier
\* message of the batch.
HookGetCompanyCached(d) ==
    /\ hook[d].pc = "loop"
    /\ Len(hook[d].outcomes) < MaxBatch
    /\ \E message \in InboundMessages :
         LET h == [hook[d] EXCEPT !.message = message,
                                  !.steps = <<"resolve">>]
             found == getCompanyByWhatsappNumber(message.phoneNumberId)
             earlier == {hook[d].outcomes[j].company :
                            j \in DOMAIN hook[d].outcomes}
         IN  \/ /\ found = {}
                /\ hook' = [hook EXCEPT ![d] = NextTurn(h, "RejectedNoTenant")]
             \/ \E c \in found :
                  \E company \in IF \E e \in earlier : e.id = c
                                 THEN {e \in earlier : e.id = c}
                                 ELSE {companies[c]} :
                      hook' = [hook EXCEPT ![d] =
                          [h EXCEPT !.company = company, !.pc = "log"]]
    /\ UNCHANGED <<others, companies, documents, whatsappMessages, now, web>>

\* Lines 414-425: the next text message of the batch and
\* storage.getCompanyByWhatsappNumber for it.
HookGetCompany(d) ==
    /\ hook[d].pc = "loop"
    /\ Len(hook[d].outcomes) < MaxBatch
    /\ \E message \in InboundMessages :
         LET h == [hook[d] EXCEPT !.message = message,
                                  !.steps = <<"resolve">>]
             found == getCompanyByWhatsappNumber(message.phoneNumberId)
         IN  \/ /\ found = {}
                /\ hook' = [hook EXCEPT ![d] = NextTurn(h, "RejectedNoTenant")]
             \/ \E c \in found :
                  hook' = [hook EXCEPT ![d] =
                      [h EXCEPT !.company = companies[c], !.pc = "log"]]
    /\ UNCHANGED <<others, companies, documents, whatsappMessages, now, web>>

\* Line 493: the loops are over, res.status(200).send("OK").
HookRespond(d) ==
    /\ hook[d].pc = "loop"
    /\ hook' = [hook EXCEPT ![d].pc = "done", ![d].status = 200]
    /\ UNCHANGED <<others, companies, documents, whatsappMessages, now, web>>

\* HookLogMessage with a message that does not parse treated as an error of
\* the delivery (throw for the else branch of line 483).
HookLogMessageStrict(d) ==
    /\ hook[d].pc = "log"
    /\ \/ LET parsed == parseWhatsAppMessage(hook[d].message.text)
              h == [hook[d] EXCEPT
                       !.logId = Len(whatsappMessages) + 1,
                       !.parsed = parsed,
                       !.steps = IF parsed.ok
                                 THEN @ \o <<"log", "parse", "gate">>
                                 ELSE @ \o <<"log", "parse">>]
          IN  /\ whatsappMessages' =
                     createWhatsappMessage(whatsappMessages, h.company.id,
                                           h.message.from, h.message.text)
              /\ hook' = [hook EXCEPT ![d] =
                     IF ~h.parsed.ok
                     THEN [NextTurn(h, "Error") EXCEPT !.pc = "done", !.status = 500]
                     ELSE IF hookLimitReached(h.company)
                     THEN NextTurn(h, "RejectedQuotaExceeded")
                     ELSE [h EXCEPT !.pc = "number"]]
       \/ HookThrow(d) /\ UNCHANGED whatsappMessages
    /\ UNCHANGED <<others, companies, documents, now, web>>

\* Lines 427-444: storage.createWhatsappMessage, then parseWhatsAppMessage
\* and the plan limit test without a further await.
HookLogMessage(d) ==
    /\ hook[d].pc = "log"
    /\ \/ LET parsed == parseWhatsAppMessage(hook[d].message.text)
              h == [hook[d] EXCEPT
                       !.logId = Len(whatsappMessages) + 1,
                       !.parsed = parsed,
                       !.steps = IF parsed.ok
                                 THEN @ \o <<"log", "parse", "gate">>
                                 ELSE @ \o <<"log", "parse">>]
          IN  /\ whatsappMessages' =
                     createWhatsappMessage(whatsappMessages, h.company.id,
                                           h.message.from, h.message.text)
              /\ hook' = [hook EXCEPT ![d] =
                     IF ~h.parsed.ok THEN NextTurn(h, "RejectedParseFailure")
                     ELSE IF hookLimitReached(h.company)
                     THEN NextTurn(h, "RejectedQuotaExceeded")
                     ELSE [h EXCEPT !.pc = "number"]]
       \/ HookThrow(d) /\ UNCHANGED whatsappMessages
    /\ UNCHANGED <<others, companies, documents, now, web>>

\* Lines 446-450: storage.generateDocumentNumber.
HookGenerateNumber(d) ==
    /\ hook[d].pc = "number"
    /\ \E t \in Clock :
            /\ now' = t
            /\ hook' = [hook EXCEPT
                 ![d].documentNumber =
                     generateDocumentNumber(documents, t, hook[d].company.id,
                                            hook[d].parsed.documentType),
                 ![d].steps = Append(@, "number"),
                 ![d].pc = "insert" ]
    /\ UNCHANGED <<others, companies, documents, whatsappMessages, web>>

\* HookCreateDocument with a rejected insert logged and passed over: the
\* turn goes on without a document.
HookCreateDocumentSwallow(d) ==
    /\ hook[d].pc = "insert"
    /\ \/ /\ documents' = createDocument(documents,
                 hookDocumentRow(hook[d].company, hook[d].documentNumber,
                                 hook[d].parsed))
          /\ hook' = [hook EXCEPT ![d].document = Len(documents) + 1,
                                  ![d].steps = Append(@, "insert"),
                                  ![d].pc = "attach"]
       \/ /\ hook' = [hook EXCEPT ![d].pc = "attach"]
          /\ UNCHANGED documents
    /\ UNCHANGED <<others, companies, whatsappMessages, now, web>>

\* Lines 452-466: storage.createDocument.
HookCreateDocument(d) ==
    /\ hook[d].pc = "insert"
    /\ \/ /\ documents' = createDocument(documents,
                 hookDocumentRow(hook[d].company, hook[d].documentNumber,
                                 hook[d].parsed))
          /\ hook' = [hook EXCEPT ![d].document = Len(documents) + 1,
                                  ![d].steps = Append(@, "insert"),
                                  ![d].pc = "attach"]
       \/ HookThrow(d) /\ UNCHANGED documents
    /\ UNCHANGED <<others, companies, whatsappMessages, now, web>>

\* HookAttach that also marks the document as sent over WhatsApp.
HookAttachMarksSent(d) ==
    /\ hook[d].pc = "attach"
    /\ \/ /\ whatsappMessages' =
                 updateWhatsappMessage(whatsappMessages, hook[d].logId,
                                       hook[d].document)
          /\ documents' = [documents EXCEPT
                 ![hook[d].document].sentViaWhatsapp = TRUE]
          /\ hook' = [hook EXCEPT ![d].steps = Append(@, "attach"),
                                  ![d].pc = "increment"]
       \/ HookThrow(d) /\ UNCHANGED <<whatsappMessages, documents>>
    /\ UNCHANGED <<others, companies, now, web>>

\* Lines 468-472: storage.updateWhatsappMessage.
HookAttach(d) ==
    /\ hook[d].pc = "attach"
    /\ \/ /\ whatsappMessages' =
                 updateWhatsappMessage(whatsappMessages, hook[d].logId,
                                       hook[d].document)
          /\ hook' = [hook EXCEPT ![d].steps = Append(@, "attach"),
                                  ![d].pc = "increment"]
       \/ HookThrow(d) /\ UNCHANGED whatsappMessages
    /\ UNCHANGED <<others, companies, documents, now, web>>

\* Lines 474-479: storage.incrementDocumentsUsed; the turn ends.
HookIncrement(d) ==
    /\ hook[d].pc = "increment"
    /\ \/ /\ companies' = incrementDocumentsUsed(companies, hook[d].company.id)
          /\ hook' = [hook EXCEPT ![d] =
                 NextTurn([hook[d] EXCEPT !.steps = Append(@, "increment")],
                          "Done")]
       \/ HookThrow(d) /\ UNCHANGED companies
    /\ UNCHANGED <<others, documents, whatsappMessages, now, web>>

Next ==
    \/ \E cl \in Clients :
         \/ WebGetCompany(cl)
         \/ WebGenerateNumber(cl)
         \/ WebCreateDocument(cl)
         \/ WebIncrement(cl)
    \/ \E d \in Deliveries :
         \/ HookGetCompany(d)
         \/ HookRespond(d)
         \/ HookLogMessage(d)
         \/ HookGenerateNumber(d)
         \/ HookCreateDocument(d)
         \/ HookAttach(d)
         \/ HookIncrement(d)

Spec == Init /\ [][Next]_vars

(***************************************************************************)
(* The same program when requests arrive one after another: a request is   *)
(* taken up only when no other request is being handled.                   *)
(***************************************************************************)
WebInFlight(cl) == web[cl].pc \notin {"idle", "done"}

HookInFlight(d) ==
    /\ hook[d].pc # "done"
    /\ hook[d].pc # "loop" \/ hook[d].outcomes # <<>>

Quiet(self) ==
    /\ \A cl \in Clients \ {self} : ~WebInFlight(cl)
    /\ \A d \in Deliveries \ {self} : ~HookInFlight(d)

SeqNext ==
    \/ \E cl \in Clients :
         \/ Quiet(cl) /\ WebGetCompany(cl)
         \/ WebGenerateNumber(cl)
         \/ WebCreateDocument(cl)
         \/ WebIncrement(cl)
    \/ \E d \in Deliveries :
         \/ Quiet(d) /\ HookGetCompany(d)
         \/ HookRespond(d)
         \/ HookLogMessage(d)
         \/ HookGenerateNumber(d)
         \/ HookCreateDocument(d)
         \/ HookAttach(d)
         \/ HookIncrement(d)

SeqSpec == Init /\ [][SeqNext]_vars

(***************************************************************************)
(* First authenticated access: getOrCreateCompany (routes.ts lines 27-47)  *)
(* for a user who has no company, with the seeding of the dashboard        *)
(* endpoint (seed.ts).  A select of one row of several takes any of them.  *)
(***************************************************************************)
\* insert into companies ... returning: the next id and the defaults of the
\* columns the row does not name.
createCompany(cs, row) ==
    Append(cs, [ id |-> Len(cs) + 1, documentsUsedThisMonth |-> 0,
                 whatsappNumberId |-> Undefined, logoUrl |-> Undefined,
                 phone |-> <<>>, stripeCustomerId |-> Undefined,
                 stripeSubscriptionId |-> Undefined ] @@ row)

DemoItem(description, quantity, unitPrice, total) ==
    [ description |-> description, quantity |-> quantity,
      unitPrice |-> unitPrice, total |-> total ]

\* demoDocuments of seedDemoData, without the company id.
demoDocuments ==
    << [ documentNumber |-> <<"INV", 2024, <<0, 0, 0, 1>>>>,
         documentType |-> "invoice",
         customerName |-> "Ahmad bin Ibrahim",
         lineItems |-> << DemoItem("Website Development", 1, 500000, 500000),
                          DemoItem("SEO Optimization", 2, 75000, 150000) >>,
         subtotal |-> 650000, taxRate |-> 600, taxAmount |-> 39000,
         total |-> 689000, status |-> "sent" ],
       [ documentNumber |-> <<"QUO", 2024, <<0, 0, 0, 1>>>>,
         documentType |-> "quotation",
         customerName |-> "Siti Nurhaliza Enterprise",
         lineItems |-> << DemoItem("Mobile App Development", 1, 1500000, 1500000),
                          DemoItem("Backend API Integration", 1, 300000, 300000),
                          DemoItem("Maintenance (12 months)", 12, 50000, 600000) >>,
         subtotal |-> 2400000, taxRate |-> 600, taxAmount |-> 144000,
         total |-> 2544000, status |-> "draft" ],
       [ documentNumber |-> <<"REC", 2024, <<0, 0, 0, 1>>>>,
         documentType |-> "receipt",
         customerName |-> "Tech Dynamics Sdn Bhd",
         lineItems |-> << DemoItem("Cloud Hosting (Annual)", 1, 120000, 120000) >>,
         subtotal |-> 120000, taxRate |-> 600, taxAmount |-> 7200,
         total |-> 127200, status |-> "paid" ] >>

\* Line 28: storage.getCompanyByUserId; a company found is returned.
AccessGetCompany(s) ==
    /\ access[s].pc = "idle"
    /\ \E seed \in BOOLEAN :
         LET found == getCompanyByUserId(SessionUser(s))
         IN  \/ /\ found = {}
                /\ access' = [access EXCEPT ![s].seed = seed, ![s].pc = "create"]
             \/ \E c \in found :
                  access' = [access EXCEPT ![s].seed = seed,
                                           ![s].company = companies[c],
                                           ![s].pc = "done", ![s].status = 200]
    /\ UNCHANGED <<companies, documents, whatsappMessages, now, web, hook,
                   edit, pdf, call>>

\* Lines 30-36: storage.createCompany; a rejected insert ends the request
\* with 500.
AccessCreateCompany(s) ==
    /\ access[s].pc = "create"
    /\ \/ /\ companies' =
                 createCompany(companies,
                     [ userId |-> SessionUser(s), name |-> "My Company",
                       subscriptionPlan |-> "starter" ])
          /\ access' = [access EXCEPT
                 ![s].company = companies'[Len(companies')],
                 ![s].pc = IF access[s].seed THEN "seedCompany" ELSE "done",
                 ![s].status = IF access[s].seed THEN 0 ELSE 200 ]
       \/ /\ access' = [access EXCEPT ![s].pc = "done", ![s].status = 500]
          /\ UNCHANGED companies
    /\ UNCHANGED <<documents, whatsappMessages, now, web, hook, edit, pdf, call>>

\* seed.ts line 7: the company of the user, which the caller has just
\* inserted (so the branch that inserts a demo company is never taken).
SeedReadCompany(s) ==
    /\ access[s].pc = "seedCompany"
    /\ \E c \in getCompanyByUserId(SessionUser(s)) :
         access' = [access EXCEPT ![s].existingCompany = companies[c],
                                  ![s].pc = "seedDocument"]
    /\ UNCHANGED <<companies, documents, whatsappMessages, now, web, hook,
                   edit, pdf, call>>

\* seed.ts lines 11-14: already seeded when the company has a document.
SeedReadDocument(s) ==
    /\ access[s].pc = "seedDocument"
    /\ LET existingDoc ==
               {i \in DOMAIN documents :
                   documents[i].companyId = access[s].existingCompany.id}
       IN  access' = [access EXCEPT
               ![s].pc = IF existingDoc # {} THEN "refresh" ELSE "seed",
               ![s].n = IF existingDoc # {} THEN 0 ELSE 1 ]
    /\ UNCHANGED <<companies, documents, whatsappMessages, now, web, hook,
                   edit, pdf, call>>

\* seed.ts lines 92-94: one insert of the loop over demoDocuments; a
\* rejected insert is caught by getOrCreateCompany (lines 41-43), which
\* returns the company it created.
SeedInsert(s) ==
    /\ access[s].pc = "seed"
    /\ \/ /\ documents' = createDocument(documents,
                 [companyId |-> access[s].existingCompany.id]
                     @@ demoDocuments[access[s].n])
          /\ access' = [access EXCEPT
                 ![s].n = IF @ = Len(demoDocuments) THEN 0 ELSE @ + 1,
                 ![s].pc = IF access[s].n = Len(demoDocuments)
                           THEN "refresh" ELSE "seed" ]
       \/ /\ access' = [access EXCEPT ![s].pc = "done", ![s].status = 200]
          /\ UNCHANGED documents
    /\ UNCHANGED <<companies, whatsappMessages, now, web, hook, edit, pdf, call>>

\* Line 40: the company read again after seeding.
AccessRefresh(s) ==
    /\ access[s].pc = "refresh"
    /\ \E c \in getCompanyByUserId(SessionUser(s)) :
         access' = [access EXCEPT ![s].company = companies[c],
                                  ![s].pc = "done", ![s].status = 200]
    /\ UNCHANGED <<companies, documents, whatsappMessages, now, web, hook,
                   edit, pdf, call>>

Access(s) ==
    \/ AccessCreateCompany(s)
    \/ SeedReadCompany(s)
    \/ SeedReadDocument(s)
    \/ SeedInsert(s)
    \/ AccessRefresh(s)

\* The first requests of a new user, side by side.
LazyNext ==
    \E s \in Sessions : AccessGetCompany(s) \/ Access(s)

LazySpec == Init /\ [][LazyNext]_vars

(***************************************************************************)
(* PATCH /api/documents/:id (routes.ts lines 244-283).                     *)
(***************************************************************************)
getDocumentById(id) == {i \in DOMAIN documents : documents[i].id = id}

\* The keys updateSchema declares, of those a row of the model has; z.object
\* drops every other key of the body.
updateSchemaKeys ==
    { "customerName", "lineItems", "subtotal", "taxRate", "taxAmount",
      "total", "status" }

updateSchemaOk(body) ==
    /\ "customerName" \in DOMAIN body => body.customerName # ""
    /\ "status" \in DOMAIN body => body.status \in documentStatuses

\* A schema that keeps the keys it does not declare.
updateSchemaPassthrough(body) == body

\* updateSchema.parse(req.body) of a body it accepts.
updateSchemaParse(body) ==
    [key \in DOMAIN body \cap updateSchemaKeys |-> body[key]]

\* update documents set ... where id = id
updateDocument(docs, id, update) ==
    [i \in DOMAIN docs |->
        IF docs[i].id = id
        THEN [key \in DOMAIN docs[i] |->
                 IF key \in DOMAIN update THEN update[key] ELSE docs[i][key]]
        ELSE docs[i]]

\* Request bodies of the update: a status, a status the schema refuses, an
\* empty name, line items with amounts that do not add up, and keys the
\* schema does not declare.
PatchBodies ==
    { [status |-> "paid"],
      [status |-> "void"],
      [customerName |-> ""],
      [lineItems |-> <<Item(2, 100, 999)>>, total |-> 5],
      [customerName |-> "Bo", companyId |-> 2, documentType |-> "receipt"] }

\* req.params.id of a request: the oldest document, the newest, or none.
DocumentIds == {0, 1, Len(documents)}

\* Lines 246-247: getOrCreateCompany for a user who has a company.
EditGetCompany(cl) ==
    /\ edit[cl].pc = "idle"
    /\ \E id \in DocumentIds, body \in PatchBodies :
       \E c \in getCompanyByUserId(UserOf(cl)) :
         edit' = [edit EXCEPT ![cl].id = id, ![cl].body = body,
                              ![cl].company = companies[c],
                              ![cl].pc = "document"]
    /\ UNCHANGED <<companies, documents, whatsappMessages, now, web, hook,
                   access, pdf, call>>

\* EditGetDocument without the test of the document's company.
EditGetDocumentOfAnyone(cl) ==
    /\ edit[cl].pc = "document"
    /\ LET found == getDocumentById(edit[cl].id)
       IN  edit' = [edit EXCEPT
               ![cl].pc = IF found # {} /\ updateSchemaOk(edit[cl].body)
                          THEN "update" ELSE "done",
               ![cl].status = IF found = {} THEN 404
                              ELSE IF ~updateSchemaOk(edit[cl].body) THEN 400
                              ELSE 0 ]
    /\ UNCHANGED <<companies, documents, whatsappMessages, now, web, hook,
                   access, pdf, call>>

\* Lines 248-272: storage.getDocumentById, the 404 test and
\* updateSchema.parse.
EditGetDocument(cl) ==
    /\ edit[cl].pc = "document"
    /\ LET found == {i \in getDocumentById(edit[cl].id) :
                        documents[i].companyId = edit[cl].company.id}
       IN  edit' = [edit EXCEPT
               ![cl].pc = IF found # {} /\ updateSchemaOk(edit[cl].body)
                          THEN "update" ELSE "done",
               ![cl].status = IF found = {} THEN 404
                              ELSE IF ~updateSchemaOk(edit[cl].body) THEN 400
                              ELSE 0 ]
    /\ UNCHANGED <<companies, documents, whatsappMessages, now, web, hook,
                   access, pdf, call>>

\* Lines 273-275: storage.updateDocument, then the updated row as JSON.
EditUpdateDocument(cl) ==
    /\ edit[cl].pc = "update"
    /\ \/ /\ documents' = updateDocument(documents, edit[cl].id,
                                        updateSchemaParse(edit[cl].body))
          /\ edit' = [edit EXCEPT ![cl].pc = "done", ![cl].status = 200]
       \/ /\ edit' = [edit EXCEPT ![cl].pc = "done", ![cl].status = 500]
          /\ UNCHANGED documents
    /\ UNCHANGED <<companies, whatsappMessages, now, web, hook, access, pdf,
                   call>>

(***************************************************************************)
(* GET /api/documents/:id/pdf (routes.ts lines 219-241) with               *)
(* generateDocumentPDF and fetchLogoBuffer (pdf.ts).                       *)
(***************************************************************************)
\* Lines 221-222: getOrCreateCompany for a user who has a company.
PdfGetCompany(cl) ==
    /\ pdf[cl].pc = "idle"
    /\ \E id \in DocumentIds : \E c \in getCompanyByUserId(UserOf(cl)) :
         pdf' = [pdf EXCEPT ![cl].id = id, ![cl].company = companies[c],
                            ![cl].pc = "document"]
    /\ UNCHANGED <<companies, documents, whatsappMessages, now, web, hook,
                   access, edit, call>>

\* Lines 223-229: storage.getDocumentById and the 404 test; then
\* generateDocumentPDF starts: with a logoUrl, fetchLogoBuffer arms its
\* timer and calls fetch.
PdfGetDocument(cl) ==
    /\ pdf[cl].pc = "document"
    /\ LET found == {i \in getDocumentById(pdf[cl].id) :
                        documents[i].companyId = pdf[cl].company.id}
       IN  pdf' = [pdf EXCEPT
               ![cl].pc = IF found = {} THEN "done"
                          ELSE IF pdf[cl].company.logoUrl # Undefined
                          THEN "fetch" ELSE "render",
               ![cl].timer = found # {} /\ pdf[cl].company.logoUrl # Undefined,
               ![cl].status = IF found = {} THEN 404 ELSE 0 ]
    /\ UNCHANGED <<companies, documents, whatsappMessages, now, web, hook,
                   access, edit, call>>

\* await fetch(url, { signal }): the fetch rejects (network error), the
\* timer aborts it, or a response arrives, with which the timer is cleared:
\* a response that is not ok gives no logo, one that is ok is read next.
PdfFetch(cl) ==
    /\ pdf[cl].pc = "fetch"
    /\ \/ pdf' = [pdf EXCEPT ![cl].logo = "failed", ![cl].pc = "render"]
       \/ /\ pdf[cl].timer
          /\ pdf' = [pdf EXCEPT ![cl].logo = "timeout", ![cl].timer = FALSE,
                                ![cl].pc = "render"]
       \/ pdf' = [pdf EXCEPT ![cl].logo = "failed", ![cl].timer = FALSE,
                             ![cl].pc = "render"]
       \/ \E stalled \in BOOLEAN :
            pdf' = [pdf EXCEPT ![cl].timer = FALSE, ![cl].stalled = stalled,
                               ![cl].pc = "body"]
    /\ UNCHANGED <<companies, documents, whatsappMessages, now, web, hook,
                   access, edit, call>>

\* await response.arrayBuffer(): the body arrives, or reading it rejects.
PdfBody(cl) ==
    /\ pdf[cl].pc = "body"
    /\ ~pdf[cl].stalled
    /\ \/ pdf' = [pdf EXCEPT ![cl].logo = "fetched", ![cl].pc = "render"]
       \/ pdf' = [pdf EXCEPT ![cl].logo = "failed", ![cl].pc = "render"]
    /\ UNCHANGED <<companies, documents, whatsappMessages, now, web, hook,
                   access, edit, call>>

\* PdfRender that also records on the document where its PDF is.
PdfRenderStoresUrl(cl) ==
    /\ pdf[cl].pc = "render"
    /\ \/ /\ pdf' = [pdf EXCEPT ![cl].pc = "done", ![cl].status = 200]
          /\ documents' = updateDocument(documents, pdf[cl].id,
                                         [pdfUrl |-> "/pdf"])
       \/ /\ pdf' = [pdf EXCEPT ![cl].pc = "done", ![cl].status = 500]
          /\ UNCHANGED documents
    /\ UNCHANGED <<companies, whatsappMessages, now, web, hook, access, edit,
                   call>>

\* The promise of generateDocumentPDF: the PDF is built (a logo that cannot
\* be embedded is left out) and sent, or building it fails and the handler
\* answers 500.
PdfRender(cl) ==
    /\ pdf[cl].pc = "render"
    /\ \/ /\ pdf' = [pdf EXCEPT ![cl].pc = "done", ![cl].status = 200]
          /\ UNCHANGED documents
       \/ /\ pdf' = [pdf EXCEPT ![cl].pc = "done", ![cl].status = 500]
          /\ UNCHANGED documents
    /\ UNCHANGED <<companies, whatsappMessages, now, web, hook, access, edit,
                   call>>

(***************************************************************************)
(* All the requests: a delivery of one message and one authenticated       *)
(* request of any kind, handled one after the other.  The first company    *)
(* may have a logo.                                                        *)
(***************************************************************************)
FullInit ==
    /\ \E logoUrl \in {Undefined, "/objects/logo.png"} : InitStore(logoUrl)
    /\ call = NoCall

\* No authenticated request has been made yet.
Fresh ==
    /\ \A cl \in Clients :
         web[cl].pc = "idle" /\ edit[cl].pc = "idle" /\ pdf[cl].pc = "idle"
    /\ \A s \in Sessions : access[s].pc = "idle"

\* No authenticated request is being handled.
Settled ==
    /\ \A cl \in Clients :
         /\ web[cl].pc \in {"idle", "done"}
         /\ edit[cl].pc \in {"idle", "done"}
         /\ pdf[cl].pc \in {"idle", "done"}
    /\ \A s \in Sessions : access[s].pc \in {"idle", "done"}

Arrive == Fresh /\ \A d \in Deliveries : ~HookInFlight(d)

\* The delivery has not taken up a message yet.
Single(d) == hook[d].outcomes = <<>>

FullNext ==
    \/ \E cl \in Clients :
         \/ Arrive /\ WebGetCompany(cl)
         \/ WebGenerateNumber(cl)
         \/ WebCreateDocument(cl)
         \/ WebIncrement(cl)
         \/ Arrive /\ EditGetCompany(cl)
         \/ EditGetDocument(cl)
         \/ EditUpdateDocument(cl)
         \/ Arrive /\ PdfGetCompany(cl)
         \/ PdfGetDocument(cl)
         \/ PdfFetch(cl)
         \/ PdfBody(cl)
         \/ PdfRender(cl)
    \/ \E s \in Sessions :
         \/ Arrive /\ AccessGetCompany(s)
         \/ Access(s)
    \/ \E d \in Deliveries :
         \/ Settled /\ Single(d) /\ HookGetCompany(d)
         \/ HookRespond(d)
         \/ HookLogMessage(d)
         \/ HookGenerateNumber(d)
         \/ HookCreateDocument(d)
         \/ HookAttach(d)
         \/ HookIncrement(d)

FullSpec == FullInit /\ [][FullNext]_vars

(***************************************************************************)
(* parseWhatsAppMessage called on its own, on every message of at most     *)
(* MaxLines lines drawn from ParserLines.                                  *)
(***************************************************************************)
MaxLines == 4

\* "Customer: John", "Customer:", "Tax: 6%", "Tax: 6.125%",
\* "Product A - 2 x RM 50", "Service: 15", "hello", "Quotation please",
\* "Note: official RECEIPT", "Note: my Quote".
ParserLines ==
    { Line("customer", "John", 0, 0, <<>>),
      Line("customer", "", 0, 0, <<>>),
      Line("tax", "6%", 0, 0, <<6, 0>>),
      Line("tax", "6.125%", 0, 0, <<6, 125>>),
      Line("item1", "Product A", 2, 5000, <<>>),
      Line("item4", "Service", 0, 1500, <<>>),
      Line("text", "hello", 0, 0, <<>>),
      Line("text", "Quotation please", 0, 0, <<>>),
      Line("note", "official RECEIPT", 0, 0, <<>>),
      Line("note", "my Quote", 0, 0, <<>>) }

\* Lines 23-24: which of the kind words message.toLowerCase() includes; a
\* kind word holds no line break, so it lies within one line.
lowerIncludes(text) ==
    CASE text = "Quotation please" -> {"quotation"}
      [] text = "official RECEIPT" -> {"receipt"}
      [] text = "my Quote" -> {"quote"}
      [] OTHER -> {}

lowerMessageIncludes(lines) ==
    UNION {lowerIncludes(lines[i].text) : i \in DOMAIN lines}

Messages ==
    UNION {[1..n -> ParserLines] : n \in 0..MaxLines}

\* The parser reads nothing of the store: one starting store is enough.
ParserInit ==
    /\ InitStore(Undefined)
    /\ companies[1].subscriptionPlan = "business"
    /\ call \in {[pc |-> "called",
                  message |-> [keywords |-> lowerMessageIncludes(m),
                              lines |-> m],
                  result |-> NoDraft] : m \in Messages}

ParseCall ==
    /\ call.pc = "called"
    /\ call' = [call EXCEPT !.pc = "returned",
                            !.result = parseWhatsAppMessage(call.message)]
    /\ UNCHANGED <<companies, documents, whatsappMessages, now, web, hook,
                   access, edit, pdf>>

ParserNext == ParseCall

ParserSpec == ParserInit /\ [][ParserNext]_vars

(***************************************************************************)
(* The phone resolver of the store (unnamed/part_005): normalizePhone,     *)
(* updateCompany and getCompanyByPhone.  A phone is the sequence of its    *)
(* characters; <<>> is no phone (null).                                    *)
(***************************************************************************)
DigitChars == {"0", "1", "2", "3", "4", "5", "6", "7", "8", "9"}

\* phone.replace(/[\s\-\(\)]/g, '')
normalizePhone(phone) ==
    SelectSeq(phone, LAMBDA ch : ch \notin {" ", "-", "(", ")"})

\* phone.slice(-10) and RIGHT(phone, 10)
Right10(phone) ==
    IF Len(phone) <= 10 THEN phone
    ELSE SubSeq(phone, Len(phone) - 9, Len(phone))

\* REGEXP_REPLACE(phone, '[^0-9+]', '', 'g')
regexpReplace(phone) ==
    SelectSeq(phone, LAMBDA ch : ch \in DigitChars \cup {"+"})

\* update companies set ... where id = id; a phone that is given is
\* normalized first.
updateCompany(cs, id, update) ==
    LET normalizedUpdate ==
            IF "phone" \in DOMAIN update /\ update.phone # <<>>
            THEN [update EXCEPT !.phone = normalizePhone(@)]
            ELSE update
    IN  [c \in DOMAIN cs |->
            IF cs[c].id = id
            THEN [key \in DOMAIN cs[c] |->
                     IF key \in DOMAIN normalizedUpdate
                     THEN normalizedUpdate[key] ELSE cs[c][key]]
            ELSE cs[c]]

\* The companies getCompanyByPhone can return (the first row of a query, in
\* no stated order); none is undefined.
getCompanyByPhone(cs, phone) ==
    LET normalizedPhone == normalizePhone(phone)
        exact == {c \in DOMAIN cs : cs[c].phone = normalizedPhone}
        lastDigits == Right10(normalizedPhone)
        byDigits == {c \in DOMAIN cs :
                        /\ cs[c].phone # <<>>
                        /\ Right10(regexpReplace(cs[c].phone)) = lastDigits}
    IN  IF exact # {} THEN exact ELSE byDigits

\* "+60 12-345 6789", "60123456789", "(012) 345-6789", "+298 123456",
\* "298123456" and "60198765432".
Phones ==
    { <<"+","6","0"," ","1","2","-","3","4","5"," ","6","7","8","9">>,
      <<"6","0","1","2","3","4","5","6","7","8","9">>,
      <<"(","0","1","2",")"," ","3","4","5","-","6","7","8","9">>,
      <<"+","2","9","8"," ","1","2","3","4","5","6">>,
      <<"2","9","8","1","2","3","4","5","6">>,
      <<"6","0","1","9","8","7","6","5","4","3","2">> }

PhoneIdle == [pc |-> "phones", candidate |-> <<>>, result |-> 0]

PhoneInit ==
    /\ InitStore(Undefined)
    /\ companies[1].subscriptionPlan = "business"
    /\ call = PhoneIdle

\* storage.updateCompany(id, {phone}).
UpdateCompanyPhone(c, phone) ==
    /\ call.pc = "phones"
    /\ companies' = updateCompany(companies, c, [phone |-> phone])
    /\ UNCHANGED <<documents, whatsappMessages, now, web, hook, access, edit,
                   pdf, call>>

\* storage.getCompanyByPhone(phone).
ResolvePhone(phone) ==
    /\ call.pc = "phones"
    /\ LET found == getCompanyByPhone(companies, phone)
       IN  \/ /\ found = {}
              /\ call' = [pc |-> "resolved", candidate |-> phone, result |-> 0]
           \/ \E c \in found :
                 call' = [pc |-> "resolved", candidate |-> phone, result |-> c]
    /\ UNCHANGED <<companies, documents, whatsappMessages, now, web, hook,
                   access, edit, pdf>>

PhoneNext ==
    \E phone \in Phones :
        \/ \E c \in DOMAIN companies : UpdateCompanyPhone(c, phone)
        \/ ResolvePhone(phone)

PhoneSpec == PhoneInit /\ [][PhoneNext]_vars

(***************************************************************************)
(* Billing and profile: WebhookHandlers.handleStripeEvent (unnamed/        *)
(* part_005), POST /api/stripe/checkout and PATCH /api/company             *)
(* (routes.ts), handled one after the other, then a creation request.      *)
(* call is the one of them being handled.                                  *)
(***************************************************************************)
getCompanyByStripeCustomerId(stripeCustomerId) ==
    {c \in DOMAIN companies : companies[c].stripeCustomerId = stripeCustomerId}

\* subscription.customer of an event: the customer of the first company's
\* checkout, and one no company has.
StripeCustomers == {"cus_1", "cus_9"}

\* subscription.items.data[0].price of an event with the plan its metadata
\* carries at Stripe: no price, a pro price, a price of 49 without
\* metadata, and a price whose metadata names no plan of the schema.
Prices ==
    { [id |-> Undefined, unit_amount |-> 0, plan |-> Undefined],
      [id |-> "price_pro", unit_amount |-> 1900, plan |-> "pro"],
      [id |-> "price_49", unit_amount |-> 4900, plan |-> Undefined],
      [id |-> "price_x", unit_amount |-> 1900, plan |-> "enterprise"] }

StripeEvents ==
    [ type : { "customer.subscription.created", "customer.subscription.updated",
               "customer.subscription.deleted", "checkout.session.completed" },
      customer : StripeCustomers,
      status : {"active", "trialing", "past_due"},
      price : Prices ]

NoEvent ==
    [ type |-> "none", customer |-> Undefined, status |-> Undefined,
      price |-> [id |-> Undefined, unit_amount |-> 0, plan |-> Undefined] ]

\* part_005 lines 282-304: the plan of a subscription; retrieved says
\* whether stripe.prices.retrieve answered.
newPlan(event, retrieved) ==
    IF event.status \in {"active", "trialing"} /\ event.price.id # Undefined
    THEN IF retrieved /\ event.price.plan # Undefined THEN event.price.plan
         ELSE IF event.price.unit_amount >= 4900 THEN "business" ELSE "pro"
    ELSE "starter"

\* What an event writes to its company.
eventUpdate(event, retrieved) ==
    CASE event.type \in { "customer.subscription.created",
                          "customer.subscription.updated" } ->
             [ stripeSubscriptionId |-> "sub_1",
               subscriptionPlan |-> newPlan(event, retrieved) ]
      [] event.type = "customer.subscription.deleted" ->
             [ stripeSubscriptionId |-> Undefined,
               subscriptionPlan |-> "starter" ]
      [] event.type = "checkout.session.completed" ->
             [ stripeSubscriptionId |-> "sub_1" ]

BillingIdle ==
    [ pc |-> "idle", kind |-> "none", event |-> NoEvent, company |-> 0,
      update |-> [none |-> 0] ]

\* A call that is over: its kind, the type of its event and how it ended.
Over(c, pc) ==
    [BillingIdle EXCEPT !.pc = pc, !.kind = c.kind, !.company = c.company,
                        !.event = [NoEvent EXCEPT !.type = c.event.type]]

AtRest == call.pc \in {"idle", "applied", "failed", "done"}

\* The creation request comes last.
Ready ==
    /\ AtRest
    /\ \A cl \in Clients : web[cl].pc = "idle"

\* handleStripeEvent up to its write: getCompanyByStripeCustomerId and, for
\* a paying subscription with a price, stripe.prices.retrieve.
EventFind(event) ==
    /\ Ready
    /\ LET found == getCompanyByStripeCustomerId(event.customer)
       IN  \/ /\ found = {}
              /\ call' = Over([BillingIdle EXCEPT !.kind = "event",
                                                  !.event = event], "done")
           \/ \E c \in found, retrieved \in BOOLEAN :
                 call' = [ pc |-> "update", kind |-> "event", event |-> event,
                           company |-> c,
                           update |-> eventUpdate(event, retrieved) ]
    /\ UNCHANGED <<companies, documents, whatsappMessages, now, web, hook,
                   access, edit, pdf>>

\* storage.updateCompany of the event; a rejection is caught and logged
\* (part_005 lines 348-350).
EventUpdate ==
    /\ call.pc = "update" /\ call.kind = "event"
    /\ \/ /\ companies' = updateCompany(companies, call.company, call.update)
          /\ call' = Over(call, "applied")
       \/ /\ call' = Over(call, "failed")
          /\ UNCHANGED companies
    /\ UNCHANGED <<documents, whatsappMessages, now, web, hook, access, edit,
                   pdf>>

\* routes.ts lines 98-105: the keys updateSchema of PATCH /api/company
\* declares; the others are stripped.
companySchemaKeys ==
    {"name", "address", "phone", "email", "logoUrl", "whatsappNumberId"}

\* companySchemaParse without the stripping of undeclared keys.
companySchemaPassthrough(body) == body

companySchemaParse(body) ==
    [key \in DOMAIN body \cap companySchemaKeys |-> body[key]]

\* name is z.string().min(1).
companySchemaOk(body) ==
    "name" \in DOMAIN body => body.name # ""

\* Request bodies of PATCH /api/company: a phone, an empty name, and a body
\* that names a plan and a counter.
ProfileBodies ==
    { [phone |-> <<"0","1","2","-","3","4","5">>],
      [name |-> ""],
      [name |-> "Acme", subscriptionPlan |-> "business",
       documentsUsedThisMonth |-> 0] }

\* PATCH /api/company up to its write (lines 93-107).
ProfileGetCompany(cl) ==
    /\ Ready
    /\ \E body \in ProfileBodies : \E c \in getCompanyByUserId(UserOf(cl)) :
         call' = IF companySchemaOk(body)
                 THEN [ pc |-> "update", kind |-> "profile", event |-> NoEvent,
                        company |-> c, update |-> companySchemaParse(body) ]
                 ELSE [BillingIdle EXCEPT !.pc = "done", !.kind = "profile",
                                          !.company = c]
    /\ UNCHANGED <<companies, documents, whatsappMessages, now, web, hook,
                   access, edit, pdf>>

\* Line 108: storage.updateCompany; a rejection answers 500.
ProfileUpdate ==
    /\ call.pc = "update" /\ call.kind = "profile"
    /\ \/ /\ companies' = updateCompany(companies, call.company, call.update)
          /\ call' = Over(call, "applied")
       \/ /\ call' = Over(call, "failed")
          /\ UNCHANGED companies
    /\ UNCHANGED <<documents, whatsappMessages, now, web, hook, access, edit,
                   pdf>>

\* POST /api/stripe/checkout up to its write (lines 322-340): a company
\* without a Stripe customer gets one.
CheckoutGetCompany(cl) ==
    /\ Ready
    /\ \E c \in getCompanyByUserId(UserOf(cl)) :
         call' = IF companies[c].stripeCustomerId = Undefined
                 THEN [ pc |-> "update", kind |-> "checkout", event |-> NoEvent,
                        company |-> c,
                        update |-> [stripeCustomerId |-> "cus_1"] ]
                 ELSE [BillingIdle EXCEPT !.pc = "done", !.kind = "checkout",
                                          !.company = c]
    /\ UNCHANGED <<companies, documents, whatsappMessages, now, web, hook,
                   access, edit, pdf>>

\* Line 341: storage.updateCompany(company.id, {stripeCustomerId}).
CheckoutUpdate ==
    /\ call.pc = "update" /\ call.kind = "checkout"
    /\ \/ /\ companies' = updateCompany(companies, call.company, call.update)
          /\ call' = Over(call, "applied")
       \/ /\ call' = Over(call, "failed")
          /\ UNCHANGED companies
    /\ UNCHANGED <<documents, whatsappMessages, now, web, hook, access, edit,
                   pdf>>

BillingInit ==
    /\ InitStore(Undefined)
    /\ call = BillingIdle

BillingNext ==
    \/ \E event \in StripeEvents : EventFind(event)
    \/ EventUpdate
    \/ ProfileUpdate
    \/ CheckoutUpdate
    \/ \E cl \in Clients :
         \/ ProfileGetCompany(cl)
         \/ CheckoutGetCompany(cl)
         \/ AtRest /\ WebGetCompany(cl)
         \/ WebGenerateNumber(cl)
         \/ WebCreateDocument(cl)
         \/ WebIncrement(cl)

BillingSpec == BillingInit /\ [][BillingNext]_vars

(***************************************************************************)
(* Reading documents: GET /api/documents/:id, GET /api/documents and       *)
(* GET /api/dashboard/stats (routes.ts), for a user who has a company.     *)
(* call is the read request: rows are the documents it answers with.       *)
(***************************************************************************)
\* select ... where company_id = companyId order by created_at desc
getDocumentsByCompanyId(docs, companyId) ==
    LET own == SelectSeq(docs, LAMBDA doc : doc.companyId = companyId)
    IN  [i \in 1..Len(own) |-> own[Len(own) + 1 - i]]

\* ... limit 5
getRecentDocuments(docs, companyId, limit) ==
    LET all == getDocumentsByCompanyId(docs, companyId)
    IN  SubSeq(all, 1, MinLen(Len(all), limit))

getDocumentCountByType(docs, companyId) ==
    [ invoices |-> CountDocuments(docs, companyId, "invoice"),
      quotations |-> CountDocuments(docs, companyId, "quotation"),
      receipts |-> CountDocuments(docs, companyId, "receipt") ]

NoCounts == [invoices |-> 0, quotations |-> 0, receipts |-> 0]

ReadIdle ==
    [ pc |-> "idle", kind |-> "none", id |-> 0, company |-> NoCompany,
      rows |-> <<>>, counts |-> NoCounts, status |-> 0 ]

\* Lines 136-137, 123-124 and 60-61: getOrCreateCompany of a read request.
ReadGetCompany(cl) ==
    /\ call.pc = "idle"
    /\ \E kind \in {"document", "list", "stats"}, id \in DocumentIds :
       \E c \in getCompanyByUserId(UserOf(cl)) :
         call' = [ReadIdle EXCEPT !.pc = kind, !.kind = kind,
                                  !.id = IF kind = "document" THEN id ELSE 0,
                                  !.company = companies[c]]
    /\ UNCHANGED <<companies, documents, whatsappMessages, now, web, hook,
                   access, edit, pdf>>

\* Lines 138-144: storage.getDocumentById and the 404 test.
ReadGetDocument ==
    /\ call.pc = "document"
    /\ LET found == {i \in getDocumentById(call.id) :
                        documents[i].companyId = call.company.id}
       IN  call' = IF found = {}
                   THEN [call EXCEPT !.pc = "done", !.status = 404]
                   ELSE [call EXCEPT !.pc = "done", !.status = 200,
                                     !.rows = <<documents[call.id]>>]
    /\ UNCHANGED <<companies, documents, whatsappMessages, now, web, hook,
                   access, edit, pdf>>

\* Lines 125-126: storage.getDocumentsByCompanyId.
ListDocuments ==
    /\ call.pc = "list"
    /\ call' = [call EXCEPT
           !.pc = "done", !.status = 200,
           !.rows = getDocumentsByCompanyId(documents, call.company.id)]
    /\ UNCHANGED <<companies, documents, whatsappMessages, now, web, hook,
                   access, edit, pdf>>

\* Line 63: storage.getDocumentCountByType.
StatsCounts ==
    /\ call.pc = "stats"
    /\ call' = [call EXCEPT
           !.pc = "recent",
           !.counts = getDocumentCountByType(documents, call.company.id)]
    /\ UNCHANGED <<companies, documents, whatsappMessages, now, web, hook,
                   access, edit, pdf>>

\* Lines 64-73: storage.getRecentDocuments.
StatsRecent ==
    /\ call.pc = "recent"
    /\ call' = [call EXCEPT
           !.pc = "done", !.status = 200,
           !.rows = getRecentDocuments(documents, call.company.id, 5)]
    /\ UNCHANGED <<companies, documents, whatsappMessages, now, web, hook,
                   access, edit, pdf>>

\* The first company with nine documents, the second with one.
IsolationInit ==
    /\ \E logoUrl \in {Undefined, "/objects/logo.png"} :
         companies =
            << [Company(1, "u1", "starter", 9, "wa1")
                   EXCEPT !.logoUrl = logoUrl],
               Company(2, "u2", "starter", 1, Undefined) >>
    /\ documents = Append(PriorDocuments(9), PriorDocument(10, 2, 1))
    /\ whatsappMessages = <<>>
    /\ now = 0
    /\ web = [cl \in Clients |-> IdleWeb]
    /\ hook = [d \in Deliveries |-> IdleHook]
    /\ access = [s \in Sessions |-> IdleAccess]
    /\ edit = [cl \in Clients |-> IdleEdit]
    /\ pdf = [cl \in Clients |-> IdlePdf]
    /\ call = ReadIdle

\* No request is being handled.
NoneInFlight ==
    /\ call.pc \in {"idle", "done"}
    /\ \A cl \in Clients : /\ edit[cl].pc \in {"idle", "done"}
                           /\ pdf[cl].pc \in {"idle", "done"}

IsolationNext ==
    \/ ReadGetDocument
    \/ ListDocuments
    \/ StatsCounts
    \/ StatsRecent
    \/ \E cl \in Clients :
         \/ NoneInFlight /\ ReadGetCompany(cl)
         \/ NoneInFlight /\ EditGetCompany(cl)
         \/ EditGetDocument(cl)
         \/ EditUpdateDocument(cl)
         \/ NoneInFlight /\ PdfGetCompany(cl)
         \/ PdfGetDocument(cl)
         \/ PdfFetch(cl)
         \/ PdfBody(cl)
         \/ PdfRender(cl)

IsolationSpec == IsolationInit /\ [][IsolationNext]_vars

(***************************************************************************)
(* What the properties speak of.                                           *)
(***************************************************************************)
Limited(company) == LimitOf(company) # Infinity

Limit(company) == LimitOf(company)[1]

\* The turns of the deliveries so far.
Turns == UNION {{hook[d].outcomes[i] : i \in DOMAIN hook[d].outcomes} : d \in Deliveries}

DocumentsOf(companyId) ==
    {i \in DOMAIN documents : documents[i].companyId = companyId}

\* The documents the requests of this run have inserted.
Created == {i \in DOMAIN documents : documents[i].customerName # PriorCustomer}

\* Requests and turns that hold an inserted document.
Holders(i) ==
    Cardinality({cl \in Clients : web[cl].document = i})
    + Cardinality({d \in Deliveries : hook[d].document = i})
    + Cardinality({<<d, k>> \in Deliveries \X (1..MaxBatch) :
          k \in DOMAIN hook[d].outcomes /\ hook[d].outcomes[k].document = i})

(***************************************************************************)
(* C1.  Quota gate boundary when requests arrive one after another, on     *)
(* both paths.  A creation request (a body the schema accepts, a message   *)
(* the parser accepts) that reads documentsUsedThisMonth = limit - 1 of a  *)
(* limited plan is let through, and once it has answered 201 / ended Done  *)
(* it holds one inserted document of that company and the counter equals   *)
(* the limit.  One that reads the counter at the limit is denied (403 /    *)
(* RejectedQuotaExceeded) and holds no document and no number.  A company  *)
(* on the business plan is never denied.                                   *)
(***************************************************************************)
QuotaGateBoundary ==
    /\ \A cl \in Clients :
         LET r == web[cl]
             c == r.company
         IN  r.pc # "idle" =>
               /\ (Limited(c) /\ c.documentsUsedThisMonth = Limit(c) - 1
                     /\ createSchemaOk(r.body)) =>
                    /\ r.status # 403
                    /\ r.status = 201 =>
                         /\ r.document \in DocumentsOf(c.id)
                         /\ Holders(r.document) = 1
                         /\ companies[c.id].documentsUsedThisMonth = Limit(c)
               /\ (Limited(c) /\ c.documentsUsedThisMonth = Limit(c)) =>
                    /\ r.pc = "done" /\ r.status = 403
                    /\ r.document = 0 /\ r.documentNumber = <<>>
               /\ ~Limited(c) => r.status # 403
    /\ \A o \in Turns :
         LET c == o.company
         IN  c # NoCompany =>
               /\ (Limited(c) /\ c.documentsUsedThisMonth = Limit(c) - 1
                     /\ o.parsed) =>
                    /\ o.outcome # "RejectedQuotaExceeded"
                    /\ o.outcome = "Done" =>
                         /\ o.document \in DocumentsOf(c.id)
                         /\ Holders(o.document) = 1
                         /\ companies[c.id].documentsUsedThisMonth = Limit(c)
               /\ (Limited(c) /\ c.documentsUsedThisMonth = Limit(c) /\ o.parsed) =>
                    /\ o.outcome = "RejectedQuotaExceeded"
                    /\ o.document = 0 /\ o.documentNumber = <<>>
               /\ ~Limited(c) => o.outcome # "RejectedQuotaExceeded"
    /\ \A i \in Created : Holders(i) = 1

\* A web request let through at limit - 1 has answered 201 and a later
\* message of the same company was denied at the limit.
QuotaGateBoundaryWitness ==
    \E cl \in Clients : \E o \in Turns :
        /\ web[cl].status = 201
        /\ Limited(web[cl].company)
        /\ web[cl].company.documentsUsedThisMonth = Limit(web[cl].company) - 1
        /\ o.company # NoCompany
        /\ o.company.id = web[cl].company.id
        /\ o.outcome = "RejectedQuotaExceeded"

(***************************************************************************)
(* C2.  For a company on a limited plan, under any interleaving of         *)
(* creation requests, documentsUsedThisMonth never exceeds the plan's      *)
(* limit and the company never holds more documents than the limit.        *)
(***************************************************************************)
UsageNeverExceedsLimit ==
    \A c \in DOMAIN companies :
        Limited(companies[c]) =>
          /\ companies[c].documentsUsedThisMonth <= Limit(companies[c])
          /\ Cardinality(DocumentsOf(companies[c].id)) <= Limit(companies[c])

(***************************************************************************)
(* C3.  The counter moves by exactly one per inserted document: when no    *)
(* request is being handled, each company's documentsUsedThisMonth equals  *)
(* what it started with plus the documents inserted for it since (the      *)
(* counter starts equal to the number of the company's earlier documents). *)
(***************************************************************************)
AllQuiet ==
    /\ \A cl \in Clients : ~WebInFlight(cl)
    /\ \A d \in Deliveries : ~HookInFlight(d)

OneIncrementPerDocument ==
    AllQuiet =>
      \A c \in DOMAIN companies :
          companies[c].documentsUsedThisMonth
            = Cardinality(DocumentsOf(companies[c].id))

(***************************************************************************)
(* C4.  No two documents of the same type of the same company made in the  *)
(* same calendar year carry the same document number.                      *)
(***************************************************************************)
DocumentNumbersUnique ==
    \A i, j \in DOMAIN documents :
        ( /\ i # j
          /\ documents[i].companyId = documents[j].companyId
          /\ documents[i].documentType = documents[j].documentType )
        => documents[i].documentNumber # documents[j].documentNumber

(***************************************************************************)
(* C5.  Every stored document's amounts add up: each line item's total is  *)
(* quantity * unitPrice, subtotal is the sum of the line totals, taxAmount *)
(* is round(subtotal * taxRate / 10000) and total is subtotal + taxAmount. *)
(***************************************************************************)
DocumentAmountsConsistent ==
    \A i \in DOMAIN documents :
        LET doc == documents[i]
        IN  /\ \A k \in DOMAIN doc.lineItems :
                 doc.lineItems[k].total
                   = doc.lineItems[k].quantity * doc.lineItems[k].unitPrice
            /\ doc.subtotal = SumTotals(doc.lineItems)
            /\ doc.taxAmount = MathRound(doc.subtotal * doc.taxRate, 10000)
            /\ doc.total = doc.subtotal + doc.taxAmount

(***************************************************************************)
(* C6.  A submission with a missing or empty customer name, no line items, *)
(* or a line item with quantity < 1 or unitPrice < 0 is answered 400 and   *)
(* inserts nothing; so every stored document has at least one line item,   *)
(* each with quantity >= 1 and unitPrice >= 0.                             *)
(***************************************************************************)
LineItemsValid(items) ==
    /\ items # <<>>
    /\ \A k \in DOMAIN items : items[k].quantity >= 1 /\ items[k].unitPrice >= 0

InvalidSubmissionsRejected ==
    /\ \A cl \in Clients :
         ( /\ web[cl].pc # "idle"
           /\ web[cl].status # 403
           /\ \/ web[cl].body.customerName \in {Undefined, ""}
              \/ ~LineItemsValid(web[cl].body.lineItems) )
         => /\ web[cl].pc = "done" /\ web[cl].status = 400
            /\ web[cl].document = 0 /\ web[cl].documentNumber = <<>>
    /\ \A i \in DOMAIN documents : LineItemsValid(documents[i].lineItems)

(***************************************************************************)
(* C7.  Every text message a delivery has taken up has exactly one         *)
(* whatsappMessages row, whichever way its turn ended; a message whose     *)
(* company is not found is logged with a null companyId and has no         *)
(* document.                                                               *)
(***************************************************************************)
EveryMessageLogged ==
    /\ \A o \in Turns :
         o.outcome # "Error" =>
           /\ o.logId \in DOMAIN whatsappMessages
           /\ o.outcome = "RejectedNoTenant" =>
                /\ whatsappMessages[o.logId].companyId = Undefined
                /\ o.document = 0
    /\ \A d \in Deliveries :
         \A j, k \in DOMAIN hook[d].outcomes :
             (j # k /\ hook[d].outcomes[j].logId # 0)
             => hook[d].outcomes[j].logId # hook[d].outcomes[k].logId

(***************************************************************************)
(* C8.  A message that parses while the company is at its limit creates no *)
(* document and no number, and its whatsappMessages row differs in its     *)
(* parse outcome (parsed, documentId) from the row of a message that       *)
(* failed to parse.                                                        *)
(***************************************************************************)
ParseOutcome(o) ==
    <<whatsappMessages[o.logId].parsed, whatsappMessages[o.logId].documentId>>

QuotaDenialDistinguishable ==
    \A o \in Turns :
        o.outcome = "RejectedQuotaExceeded" =>
          /\ o.document = 0 /\ o.documentNumber = <<>>
          /\ o.logId \in DOMAIN whatsappMessages
          /\ \A f \in Turns :
               f.outcome = "RejectedParseFailure" =>
                 ParseOutcome(o) # ParseOutcome(f)

(***************************************************************************)
(* C9.  A message of a known company that the parser refuses: its turn     *)
(* ends RejectedParseFailure with one whatsappMessages row of the company, *)
(* parsed = false and documentId null, no document and no number; the      *)
(* counter moves only with a 201 or a Done turn; and the delivery is       *)
(* answered 200 unless a store call was rejected.                          *)
(***************************************************************************)
UsageMovedBy(companyId) ==
    Cardinality({cl \in Clients :
        web[cl].status = 201 /\ web[cl].company.id = companyId})
    + Cardinality({<<d, k>> \in Deliveries \X (1..MaxBatch) :
          /\ k \in DOMAIN hook[d].outcomes
          /\ hook[d].outcomes[k].outcome = "Done"
          /\ hook[d].outcomes[k].company.id = companyId})

ParseFailureLoggedAndAcknowledged ==
    /\ \A o \in Turns :
         (o.logId # 0 /\ ~parseWhatsAppMessage(o.text).ok) =>
           /\ o.outcome = "RejectedParseFailure"
           /\ o.logId \in DOMAIN whatsappMessages
           /\ whatsappMessages[o.logId].companyId = o.company.id
           /\ whatsappMessages[o.logId].messageBody = o.text
           /\ ParseOutcome(o) = <<FALSE, 0>>
           /\ o.document = 0 /\ o.documentNumber = <<>>
    /\ \A i \in Created : Holders(i) = 1
    /\ \A c \in DOMAIN companies :
         companies[c].documentsUsedThisMonth
           = Cardinality(DocumentsOf(companies[c].id) \ Created)
             + UsageMovedBy(companies[c].id)
    /\ \A d \in Deliveries :
         hook[d].pc = "done" =>
           hook[d].status =
             IF \E k \in DOMAIN hook[d].outcomes :
                    hook[d].outcomes[k].outcome = "Error"
             THEN 500 ELSE 200

\* A delivery answered 200 after a turn that ended RejectedParseFailure.
ParseFailureWitness ==
    \E d \in Deliveries :
        /\ hook[d].pc = "done" /\ hook[d].status = 200
        /\ \E k \in DOMAIN hook[d].outcomes :
               /\ hook[d].outcomes[k].outcome = "RejectedParseFailure"
               /\ ParseOutcome(hook[d].outcomes[k]) = <<FALSE, 0>>

(***************************************************************************)
(* C10.  Once a request has inserted its document, it does not end before  *)
(* its usage increment has been attempted: a turn or request that holds a  *)
(* document ended at the increment step.                                   *)
(***************************************************************************)
IncrementNeverSkipped ==
    /\ \A o \in Turns : o.document # 0 => o.at = "increment"
    /\ \A cl \in Clients :
         (web[cl].pc = "done" /\ web[cl].document # 0)
         => web[cl].status \in {201, 500}

(***************************************************************************)
(* C11.  A rejected document insert is not reported as success.  A web     *)
(* request that ended after assigning its number and before inserting is   *)
(* answered 500 and holds no document; a turn that ended at the insert     *)
(* holds no document, its whatsappMessages row is neither marked parsed    *)
(* nor linked, and its delivery is answered 500.  No row is marked parsed  *)
(* or linked without an existing document, the counter has moved only for  *)
(* requests answered 201 and turns ended Done, and a request answered 201  *)
(* holds the document it inserted.                                         *)
(***************************************************************************)
Last(seq) == seq[Len(seq)]

InsertFailed(r) == r.pc = "done" /\ r.steps # <<>> /\ Last(r.steps) = "number"

InsertFailureNotReportedAsSuccess ==
    /\ \A cl \in Clients :
         LET r == web[cl]
         IN  /\ InsertFailed(r) => r.status = 500 /\ r.document = 0
             /\ r.status = 201 =>
                  /\ r.document \in DocumentsOf(r.company.id)
                  /\ documents[r.document].documentNumber = r.documentNumber
                  /\ documents[r.document].customerName = r.body.customerName
    /\ \A d \in Deliveries : \A k \in DOMAIN hook[d].outcomes :
         LET o == hook[d].outcomes[k]
         IN  o.at = "insert" =>
               /\ o.outcome = "Error"
               /\ o.document = 0
               /\ ParseOutcome(o) = <<FALSE, 0>>
               /\ hook[d].pc = "done" /\ hook[d].status = 500
    /\ \A m \in DOMAIN whatsappMessages :
         (whatsappMessages[m].parsed \/ whatsappMessages[m].documentId # 0)
         => whatsappMessages[m].documentId \in DOMAIN documents
    /\ \A i \in Created : Holders(i) = 1
    /\ \A c \in DOMAIN companies :
         companies[c].documentsUsedThisMonth
           = Cardinality(DocumentsOf(companies[c].id) \ Created)
             + UsageMovedBy(companies[c].id)

\* A web request and a later turn have both had their insert rejected.
InsertFailureWitness ==
    /\ \E cl \in Clients : InsertFailed(web[cl]) /\ web[cl].status = 500
    /\ \E o \in Turns : o.at = "insert" /\ o.outcome = "Error"

(***************************************************************************)
(* C12.  Within a request the pipeline steps run in the order resolve      *)
(* tenant, gate quota, parse / validate, assign number, insert, increment: *)
(* on both paths no step of a request or turn runs after a later one of    *)
(* this order.                                                             *)
(***************************************************************************)
PipelineSteps ==
    {"resolve", "gate", "parse", "validate", "number", "insert", "increment"}

PipelineRank(step) ==
    CASE step = "resolve" -> 1
      [] step = "gate" -> 2
      [] step \in {"parse", "validate"} -> 3
      [] step = "number" -> 4
      [] step = "insert" -> 5
      [] step = "increment" -> 6

InPipelineOrder(steps) ==
    \A i, j \in DOMAIN steps :
        (i < j /\ steps[i] \in PipelineSteps /\ steps[j] \in PipelineSteps)
        => PipelineRank(steps[i]) < PipelineRank(steps[j])

PipelineOrder ==
    /\ \A cl \in Clients : InPipelineOrder(web[cl].steps)
    /\ \A d \in Deliveries : InPipelineOrder(hook[d].steps)
    /\ \A o \in Turns : InPipelineOrder(o.steps)

(***************************************************************************)
(* C13.  Redelivery: of the turns that handled the same message event (the *)
(* same message id and body for the same company) at most one holds a      *)
(* document and at most one ended with the usage increment.                *)
(***************************************************************************)
SameEvent(o, p) ==
    /\ o.message = p.message /\ o.text = p.text
    /\ o.company # NoCompany /\ p.company # NoCompany
    /\ o.company.id = p.company.id

RedeliveryCreatesAtMostOne ==
    \A d, e \in Deliveries :
      \A j \in DOMAIN hook[d].outcomes : \A k \in DOMAIN hook[e].outcomes :
        LET o == hook[d].outcomes[j]
            p == hook[e].outcomes[k]
        IN  (<<d, j>> # <<e, k>> /\ SameEvent(o, p)) =>
              /\ ~(o.document # 0 /\ p.document # 0)
              /\ ~(o.outcome = "Done" /\ p.outcome = "Done")

(***************************************************************************)
(* C15.  A web request denied by the quota gate is answered 403 with a     *)
(* body that carries a reason code besides the free-text message, other    *)
(* than the body of a validation error; it holds no document and no        *)
(* number and leaves the company's counter as it read it.                  *)
(***************************************************************************)
QuotaDenialCarriesReasonCode ==
    \A cl \in Clients :
        LET r == web[cl]
        IN  (r.pc # "idle" /\ ~checkPlanLimit(r.company)) =>
              /\ r.pc = "done" /\ r.status = 403
              /\ r.fields \ {"message"} # {}
              /\ r.fields # {"message", "errors"}
              /\ r.document = 0 /\ r.documentNumber = <<>>
              /\ companies[r.company.id].documentsUsedThisMonth
                   = r.company.documentsUsedThisMonth

(***************************************************************************)
(* C19.  When requests arrive one after another, the number of every       *)
(* document they insert is <<PREFIX, YEAR, SEQ, DISAMBIGUATOR>>: PREFIX is *)
(* INV, QUO or REC by kind, YEAR the calendar year of the clock, SEQ the   *)
(* decimal digits, zero-padded to four, of k when the document is the k-th *)
(* of its kind of its company, whatever documents of other kinds and       *)
(* companies exist, and DISAMBIGUATOR four base-36 digits.                 *)
(***************************************************************************)
RECURSIVE DigitsValue(_)
DigitsValue(digits) ==
    IF digits = <<>> THEN 0
    ELSE 10 * DigitsValue(SubSeq(digits, 1, Len(digits) - 1)) + Last(digits)

\* The place of document i among the documents of its kind of its company.
OrdinalOf(i) ==
    Cardinality({j \in 1..i :
        /\ documents[j].companyId = documents[i].companyId
        /\ documents[j].documentType = documents[i].documentType})

OneCompanyPerUser ==
    \A c, e \in DOMAIN companies :
        companies[c].userId = companies[e].userId => c = e

(***************************************************************************)
(* C16.  A stored document changes only by the update endpoint: in every   *)
(* step every document stays in the table, and one whose row changes is    *)
(* the document of a PATCH request that the step answers with 200.         *)
(***************************************************************************)
DocumentsChangeOnlyByUpdate ==
    [][ \A i \in DOMAIN documents :
          /\ i \in DOMAIN documents'
          /\ documents'[i] # documents[i] =>
               \E cl \in Clients :
                   /\ edit[cl].pc = "update"
                   /\ edit[cl].id = documents[i].id
                   /\ edit'[cl].status = 200 ]_vars

\* A PATCH has set a document to paid in a run in which the delivery made
\* a document.
DocumentUpdateWitness ==
    /\ \E cl \in Clients :
         /\ edit[cl].status = 200
         /\ documents[edit[cl].id].status = "paid"
    /\ \E o \in Turns : o.outcome = "Done"

(***************************************************************************)
(* C17.  No step of a PDF request, whether the logo fetch or the rendering *)
(* succeeds or fails, changes a document or a company's                    *)
(* documentsUsedThisMonth.                                                 *)
(***************************************************************************)
RenderLeavesDocuments ==
    [][ (\E cl \in Clients : pdf'[cl] # pdf[cl]) =>
          /\ documents' = documents
          /\ DOMAIN companies' = DOMAIN companies
          /\ \A c \in DOMAIN companies :
                 companies'[c].documentsUsedThisMonth
                   = companies[c].documentsUsedThisMonth ]_vars

\* A PDF request whose logo fetch failed and whose rendering failed too.
RenderFailureWitness ==
    \E cl \in Clients :
        /\ pdf[cl].pc = "done" /\ pdf[cl].status = 500
        /\ pdf[cl].logo = "failed"
        /\ pdf[cl].id \in DOMAIN documents

(***************************************************************************)
(* C18.  PDF retrieval completes whatever the logo fetch does: while the   *)
(* request waits for the logo (the response or its body) the abort timer   *)
(* is armed, the request can always take its next step, and a logo that    *)
(* was not obtained leads to rendering without it.                         *)
(***************************************************************************)
PdfStep(cl) ==
    PdfGetDocument(cl) \/ PdfFetch(cl) \/ PdfBody(cl) \/ PdfRender(cl)

RenderCompletes ==
    \A cl \in Clients :
        /\ pdf[cl].pc \in {"fetch", "body"} => pdf[cl].timer
        /\ pdf[cl].pc \notin {"idle", "done"} => ENABLED PdfStep(cl)
        /\ pdf[cl].logo \in {"failed", "timeout"}
             => pdf[cl].pc \in {"render", "done"}

(***************************************************************************)
(* C20.  parseWhatsAppMessage returns null exactly when the message has    *)
(* fewer than 2 lines, or no customer name was established, or no line     *)
(* item was extracted; otherwise it returns a draft with that non-empty    *)
(* name and the items of the item lines, at least one, in message order.   *)
(***************************************************************************)
ItemKinds == {"item1", "item2", "item3", "item4"}

ItemLines(lines) == SelectSeq(lines, LAMBDA l : l.kind \in ItemKinds)

\* The name a message establishes: the label of its last customer line; when
\* that label is empty, or there is no customer line, the first line when it
\* is bare text and stands (again) after the last customer line.
EstablishedName(lines) ==
    LET labels == {i \in DOMAIN lines : lines[i].kind = "customer"}
        last == IF labels = {} THEN 0
                ELSE CHOOSE i \in labels : \A j \in labels : j <= i
    IN  IF last > 0 /\ lines[last].text # "" THEN lines[last].text
        ELSE IF \E i \in DOMAIN lines :
                   i > last /\ lines[i].kind = "text" /\ lines[i] = lines[1]
        THEN lines[1].text
        ELSE ""

ParserReturnsDraftOrNull ==
    call.pc = "returned" =>
        LET lines == call.message.lines
            items == ItemLines(lines)
            r == call.result
        IN  /\ r = NoDraft <=> \/ Len(lines) < 2
                               \/ EstablishedName(lines) = ""
                               \/ items = <<>>
            /\ r # NoDraft =>
                 /\ r.ok
                 /\ r.customerName # ""
                 /\ r.customerName = EstablishedName(lines)
                 /\ Len(r.lineItems) >= 1
                 /\ Len(r.lineItems) = Len(items)
                 /\ \A i \in DOMAIN items :
                        /\ r.lineItems[i].description = items[i].text
                        /\ r.lineItems[i].unitPrice = items[i].cents

\* A draft of two different items whose name is the bare first line.
ParserDraftWitness ==
    /\ call.pc = "returned" /\ call.result # NoDraft
    /\ Len(call.result.lineItems) >= 2
    /\ call.result.lineItems[1] # call.result.lineItems[2]
    /\ call.message.lines[1].kind = "text"

(***************************************************************************)
(* C21.  The amounts of an accepted draft: each item's total is quantity   *)
(* times unitPrice, subtotal is the sum of the totals, taxRate is the      *)
(* integer round(p * 100) of the percentage p of the tax line (0 without   *)
(* one), taxAmount is round(subtotal * taxRate / 10000), total is subtotal *)
(* plus taxAmount; two items of 10000 with 6% give 20000, 600, 1200, 21200.*)
(***************************************************************************)
\* The percentage a message gives: that of its last tax line with a number.
TaxPercent(lines) ==
    LET given == {i \in DOMAIN lines :
                     lines[i].kind = "tax" /\ lines[i].pct # <<>>}
    IN  IF given = {} THEN <<0, 0>>
        ELSE lines[CHOOSE i \in given : \A j \in given : j <= i].pct

\* round(p * 100) of the decimal p = <<whole, thousandths>>.
RoundedRate(p) == MathRound(p[1] * 1000 + p[2], 10)

DraftAmounts ==
    (call.pc = "returned" /\ call.result # NoDraft) =>
        LET r == call.result
            p == TaxPercent(call.message.lines)
        IN  /\ \A i \in DOMAIN r.lineItems :
                   r.lineItems[i].total
                     = r.lineItems[i].quantity * r.lineItems[i].unitPrice
            /\ r.subtotal = SumTotals(r.lineItems)
            /\ r.taxRateTenths = 0
            /\ OrZero(r.taxRate) = RoundedRate(p)
            /\ OrZero(r.taxAmount)
                 = MathRound(r.subtotal * OrZero(r.taxRate), 10000)
            /\ r.total = r.subtotal + OrZero(r.taxAmount)
            /\ (r.subtotal = 20000 /\ p = <<6, 0>>) =>
                   /\ r.taxRate = <<600>> /\ r.taxAmount = <<1200>>
                   /\ r.total = 21200

(***************************************************************************)
(* C22.  The kind of a draft: quotation when some line of the message      *)
(* holds "quotation" or "quote" in any letter case, otherwise receipt when *)
(* some line holds "receipt", otherwise invoice; both a quotation word and *)
(* "receipt" give quotation.                                               *)
(***************************************************************************)
Holds(lines, word) ==
    \E i \in DOMAIN lines : word \in lowerIncludes(lines[i].text)

ClassificationPrecedence ==
    (call.pc = "returned" /\ call.result # NoDraft) =>
        LET lines == call.message.lines
            kind == call.result.documentType
        IN  /\ (Holds(lines, "quotation") \/ Holds(lines, "quote"))
                  => kind = "quotation"
            /\ ( /\ ~Holds(lines, "quotation") /\ ~Holds(lines, "quote")
                 /\ Holds(lines, "receipt") ) => kind = "receipt"
            /\ ( /\ ~Holds(lines, "quotation") /\ ~Holds(lines, "quote")
                 /\ ~Holds(lines, "receipt") ) => kind = "invoice"

\* A draft of a message that holds both "Quote" and "RECEIPT".
ClassificationWitness ==
    /\ call.pc = "returned" /\ call.result # NoDraft
    /\ Holds(call.message.lines, "quote")
    /\ Holds(call.message.lines, "receipt")
    /\ call.result.documentType = "quotation"

(***************************************************************************)
(* C23.  Stored phones are normalized, and a phone string resolves to the  *)
(* company whose stored phone has the same digits, whatever spaces,        *)
(* hyphens, parentheses or leading "+" the two strings carry, when no      *)
(* other company's phone ends in the same ten digits.                      *)
(***************************************************************************)
Digits(phone) == SelectSeq(phone, LAMBDA ch : ch \in DigitChars)

Holder(phone) ==
    {c \in DOMAIN companies :
        /\ companies[c].phone # <<>>
        /\ Right10(Digits(companies[c].phone)) = Right10(Digits(phone))}

PhoneVariantsResolve ==
    /\ \A c \in DOMAIN companies :
          companies[c].phone = normalizePhone(companies[c].phone)
    /\ call.pc = "resolved" =>
          \A c \in DOMAIN companies :
              ( /\ Holder(call.candidate) = {c}
                /\ Digits(companies[c].phone) = Digits(call.candidate) )
                => call.result = c

(***************************************************************************)
(* C24.  One terminal outcome per request: a web creation answers once,    *)
(* with 201 (document inserted and counted), 403, 400 or 500; every turn   *)
(* of a delivery ends as Done, RejectedNoTenant, RejectedQuotaExceeded or  *)
(* RejectedParseFailure and the delivery answers once; a document is       *)
(* inserted only after tenant resolution, quota gate and parsing or        *)
(* validation.                                                             *)
(***************************************************************************)
StepsBefore(steps, step) ==
    {steps[i] : i \in {j \in DOMAIN steps :
                          \E k \in DOMAIN steps : j < k /\ steps[k] = step}}

TerminalOutcomes ==
    /\ \A cl \in Clients :
         /\ web[cl].status # 0 <=> web[cl].pc = "done"
         /\ web[cl].status \in {0, 201, 403, 400, 500}
         /\ web[cl].status = 201 =>
              /\ web[cl].document \in DOMAIN documents
              /\ Last(web[cl].steps) = "increment"
         /\ web[cl].status \in {403, 400} => web[cl].document = 0
         /\ web[cl].document # 0 =>
              {"resolve", "gate", "validate"}
                 \subseteq StepsBefore(web[cl].steps, "insert")
    /\ \A d \in Deliveries :
         /\ hook[d].status # 0 <=> hook[d].pc = "done"
         /\ hook[d].status \in {0, 200, 500}
    /\ \A o \in Turns :
         /\ o.outcome \in {"Done", "RejectedNoTenant", "RejectedQuotaExceeded",
                           "RejectedParseFailure"}
         /\ o.document # 0 =>
              {"resolve", "gate", "parse"} \subseteq StepsBefore(o.steps, "insert")

(***************************************************************************)
(* C25.  Within a delivery the company is read again for every message:    *)
(* each message sees the counter the message before it left, and a         *)
(* delivery of N accepted messages of a limited company with k documents   *)
(* left, handled with no other request and no rejected store call, makes   *)
(* min(N, k) documents and leaves the counter at most at the limit.        *)
(***************************************************************************)
MinOf(a, b) == IF a <= b THEN a ELSE b

BatchRereadsTenant ==
    \A d \in Deliveries :
        LET os == hook[d].outcomes
        IN  /\ \A j \in DOMAIN os :
                 (j > 1 /\ os[j].company # NoCompany
                        /\ os[j - 1].company # NoCompany
                        /\ os[j].company.id = os[j - 1].company.id) =>
                    os[j].company.documentsUsedThisMonth
                      = os[j - 1].company.documentsUsedThisMonth
                          + (IF os[j - 1].outcome = "Done" THEN 1 ELSE 0)
            /\ hook[d].status = 200 =>
                 \A c \in DOMAIN companies :
                    LET mine == {j \in DOMAIN os :
                                    /\ os[j].company # NoCompany
                                    /\ os[j].company.id = c
                                    /\ os[j].parsed}
                        first == CHOOSE j \in mine : \A i \in mine : j <= i
                        k == Limit(companies[c])
                               - os[first].company.documentsUsedThisMonth
                        made == {os[j].document : j \in
                                    {i \in mine : os[i].outcome = "Done"}}
                    IN  (mine # {} /\ Limited(companies[c])) =>
                          /\ made \subseteq DocumentsOf(c)
                          /\ Cardinality(made) = MinOf(Cardinality(mine), k)
                          /\ companies[c].documentsUsedThisMonth
                               <= Limit(companies[c])

\* A delivery of two accepted messages of a company with one document left:
\* the first made a document, the second was denied.
BatchRereadWitness ==
    \E d \in Deliveries :
        /\ hook[d].status = 200
        /\ Len(hook[d].outcomes) = 2
        /\ hook[d].outcomes[1].outcome = "Done"
        /\ hook[d].outcomes[2].outcome = "RejectedQuotaExceeded"
        /\ hook[d].outcomes[2].company.id = hook[d].outcomes[1].company.id
        /\ hook[d].outcomes[1].company.documentsUsedThisMonth
             = Limit(hook[d].outcomes[1].company) - 1

(***************************************************************************)
(* C26.  Every company's subscriptionPlan is starter, pro or business, so  *)
(* its limit is defined and the gate of the web form and the gate of the   *)
(* webhook decide alike on it.                                             *)
(***************************************************************************)
PlanAlwaysKnown ==
    \A c \in DOMAIN companies :
        /\ companies[c].subscriptionPlan \in subscriptionPlans
        /\ LimitOf(companies[c]) # UndefinedLimit
        /\ checkPlanLimit(companies[c]) <=> ~hookLimitReached(companies[c])

(***************************************************************************)
(* C27.  A step changes a company's subscriptionPlan only as the write of  *)
(* a subscription event for that company: a deleted event sets starter and *)
(* clears the subscription reference, a created or updated event whose     *)
(* status is not active or trialing sets starter, and pro or business      *)
(* comes only from a created or updated event with status active or        *)
(* trialing; an event for an unknown customer changes no company.          *)
(***************************************************************************)
SubscriptionChanged ==
    {"customer.subscription.created", "customer.subscription.updated"}

Paying == {"active", "trialing"}

BillingDrivesPlan ==
    [][ /\ \A c \in DOMAIN companies :
             LET old == companies[c].subscriptionPlan
                 new == companies'[c].subscriptionPlan
                 e == call.event
                 written == /\ call.pc = "update" /\ call.kind = "event"
                            /\ call.company = c /\ call'.pc = "applied"
             IN  /\ c \in DOMAIN companies'
                 /\ new # old =>
                      /\ written
                      /\ e.type \in SubscriptionChanged
                                      \cup {"customer.subscription.deleted"}
                 /\ (new # old /\ new \in {"pro", "business"}) =>
                      e.type \in SubscriptionChanged /\ e.status \in Paying
                 /\ (written /\ e.type = "customer.subscription.deleted") =>
                      /\ new = "starter"
                      /\ companies'[c].stripeSubscriptionId = Undefined
                 /\ ( /\ written /\ e.type \in SubscriptionChanged
                      /\ e.status \notin Paying ) => new = "starter"
        /\ (call' # call /\ call'.kind = "event" /\ call'.pc = "done")
              => companies' = companies ]_vars

\* A deleted event was written for a company that has a Stripe customer and
\* a phone from a profile update.
BillingWitness ==
    /\ call.pc = "applied" /\ call.kind = "event"
    /\ call.event.type = "customer.subscription.deleted"
    /\ companies[call.company].subscriptionPlan = "starter"
    /\ companies[call.company].stripeCustomerId = "cus_1"
    /\ companies[call.company].phone # <<>>

(***************************************************************************)
(* C28.  Tenant isolation: a read, an update or a PDF of a document goes   *)
(* past the 404 test only when the document belongs to the company of the  *)
(* requesting user, a request for another company's document answers 404   *)
(* and changes no document, and the list and the dashboard hold only       *)
(* documents of the user's company.                                        *)
(***************************************************************************)
Own(cl, id) ==
    /\ id \in DOMAIN documents
    /\ documents[id].companyId \in getCompanyByUserId(UserOf(cl))

Isolated ==
    \A cl \in Clients :
        /\ (edit[cl].pc = "update" \/ edit[cl].status \in {200, 400, 500})
              => Own(cl, edit[cl].id)
        /\ (edit[cl].pc = "done" /\ ~Own(cl, edit[cl].id))
              => edit[cl].status = 404
        /\ ( \/ pdf[cl].pc \in {"fetch", "body", "render"}
             \/ pdf[cl].status \in {200, 500} ) => Own(cl, pdf[cl].id)
        /\ (pdf[cl].pc = "done" /\ ~Own(cl, pdf[cl].id))
              => pdf[cl].status = 404
        /\ (call.kind = "document" /\ call.status = 200)
              => /\ Own(cl, call.id)
                 /\ Len(call.rows) = 1 /\ call.rows[1].id = call.id
        /\ (call.kind = "document" /\ call.pc = "done" /\ ~Own(cl, call.id))
              => call.status = 404
        /\ \A k \in DOMAIN call.rows :
               call.rows[k].companyId \in getCompanyByUserId(UserOf(cl))
        /\ (call.kind = "stats" /\ call.pc \in {"recent", "done"}) =>
               \A c \in getCompanyByUserId(UserOf(cl)) :
                   call.counts = getDocumentCountByType(documents, c)

TenantIsolation ==
    [][ /\ Isolated'
        /\ \A i \in DOMAIN documents :
              documents'[i] # documents[i] =>
                 \E cl \in Clients :
                     /\ edit[cl].pc = "update" /\ edit[cl].id = i
                     /\ Own(cl, i) ]_vars

\* An update of the other company's document was answered 404, the PDF of
\* an own document was sent and the list was read.
TenantIsolationWitness ==
    \E cl \in Clients :
        /\ edit[cl].status = 404
        /\ edit[cl].id \in DOMAIN documents
        /\ documents[edit[cl].id].companyId = 2
        /\ pdf[cl].status = 200
        /\ call.kind = "list" /\ call.pc = "done" /\ Len(call.rows) = 9

(***************************************************************************)
(* C29.  A step of PATCH /api/documents/:id leaves the id, companyId,      *)
(* documentNumber and documentType of every document as they were, keeps   *)
(* the number of documents, leaves the companies (documentsUsedThisMonth   *)
(* with them) unchanged, and changes no document when it answers 400 or    *)
(* 404.                                                                    *)
(***************************************************************************)
PatchStep(cl) == edit'[cl] # edit[cl]

PatchFrame ==
    [][ \A cl \in Clients : PatchStep(cl) =>
          /\ Len(documents') = Len(documents)
          /\ \A i \in DOMAIN documents :
                /\ documents'[i].id = documents[i].id
                /\ documents'[i].companyId = documents[i].companyId
                /\ documents'[i].documentNumber = documents[i].documentNumber
                /\ documents'[i].documentType = documents[i].documentType
          /\ companies' = companies
          /\ edit'[cl].status \in {400, 404} => documents' = documents ]_vars

\* An update whose body names another company and another type was applied:
\* the customer name changed, the company and the type did not.
PatchFrameWitness ==
    \E cl \in Clients :
        /\ edit[cl].status = 200
        /\ {"companyId", "documentType"} \subseteq DOMAIN edit[cl].body
        /\ documents[edit[cl].id].customerName = edit[cl].body.customerName
        /\ documents[edit[cl].id].companyId # edit[cl].body.companyId
        /\ documents[edit[cl].id].documentType # edit[cl].body.documentType

(***************************************************************************)
(* C30.  After every step each logged message has parsed exactly when it   *)
(* has a documentId, and that document exists and belongs to the           *)
(* message's company; a step adds at most one message and rewrites none,   *)
(* except that it may link a message that had no document, once, to a      *)
(* document that exists already and carries what parseWhatsAppMessage      *)
(* makes of the message body.                                              *)
(***************************************************************************)
MessageLinked(m) ==
    /\ m.parsed <=> m.documentId # 0
    /\ m.documentId # 0 =>
          /\ m.documentId \in DOMAIN documents
          /\ documents[m.documentId].id = m.documentId
          /\ documents[m.documentId].companyId = m.companyId

AllLinked == \A i \in DOMAIN whatsappMessages : MessageLinked(whatsappMessages[i])

\* The document of the i-th message carries the draft of the message body.
BuiltFromBody(i) ==
    LET m == whatsappMessages[i]
        doc == documents[m.documentId]
        parsed == parseWhatsAppMessage(m.messageBody)
    IN  /\ parsed.ok
        /\ doc.documentType = parsed.documentType
        /\ doc.customerName = parsed.customerName
        /\ doc.lineItems = parsed.lineItems
        /\ doc.subtotal = parsed.subtotal
        /\ doc.total = parsed.total

MessagesLinkedOnce ==
    [][ /\ AllLinked'
        /\ Len(whatsappMessages') \in
              {Len(whatsappMessages), Len(whatsappMessages) + 1}
        /\ \A i \in DOMAIN whatsappMessages :
              whatsappMessages'[i] # whatsappMessages[i] =>
                 /\ ~whatsappMessages[i].parsed
                 /\ whatsappMessages[i].documentId = 0
                 /\ whatsappMessages'[i].documentId \in DOMAIN documents
                 /\ whatsappMessages'[i] =
                       [whatsappMessages[i] EXCEPT
                           !.parsed = TRUE,
                           !.documentId = whatsappMessages'[i].documentId]
                 /\ BuiltFromBody(i)'
      ]_vars

\* One logged message is linked to its document, another has none.
MessagesLinkedWitness ==
    \E i, j \in DOMAIN whatsappMessages :
        /\ whatsappMessages[i].parsed
        /\ whatsappMessages[i].documentId \in DOMAIN documents
        /\ ~whatsappMessages[j].parsed
        /\ whatsappMessages[j].documentId = 0

====
